---- MODULE Spec2Model ----
(***************************************************************************)
(* Model of routine-music-handler: the row scanner, the version resolver,  *)
(* the deletion fallback and the per-row transfer pipeline of              *)
(* process_submission_sheet.                                               *)
(*                                                                         *)
(* Text values (cells, file names) are sequences of one-character strings, *)
(* so that trimming, case folding, prefix tests and number parsing are     *)
(* computed the way the Python code computes them.  A character that a     *)
(* string of the module cannot hold is written by its code point: "U+0060" *)
(* (grave accent), "U+0178", "U+039C" and "U+03BC" (the letters the case    *)
(* mappings of U+00FF and U+00B5 lead to).                                  *)
(***************************************************************************)
EXTENDS Integers, Sequences, FiniteSets, TLC

VARIABLES
    sheet,      \* intake worksheet: sequence of rows (row 1 = header), a row is a sequence of cells
    values,     \* the snapshot sheet.get_all_values() returned to the running scan
    queue,      \* row numbers (into values) the scanner still has to yield in this run
    pc,         \* position of the single control flow
    cur,        \* locals of the loop body: the row number being processed and what was computed for it
    srcState,   \* Drive: where each submitted original is (by file id)
    perms,      \* Drive: the capabilities the service account has on the originals
    destFiles,  \* Drive: files of the destination folder, in creation order
    ledger,     \* _Submitted_Music division tab: sequence of rows (row 1 = header)
    calls,      \* calls issued in the current run, in order (the observable of the tests' fakes)
    runs,       \* number of runs started
    faults,     \* number of injected backend failures and crashes so far
    clean,      \* no backend failure or crash was injected in the current run
    stats,      \* per data row, over all runs: commit writes, uploads, ledger appends, source id extracted
    res_in,     \* input of the pure-function specifications
    res_out     \* output of the pure-function specifications

vars == <<sheet, values, queue, pc, cur, srcState, perms, destFiles, ledger, calls,
          runs, faults, clean, stats, res_in, res_out>>

----------------------------------------------------------------------------
(* Text helpers: str methods used by the code.                              *)

AsciiUpperChars == <<"A","B","C","D","E","F","G","H","I","J","K","L","M",
                     "N","O","P","Q","R","S","T","U","V","W","X","Y","Z">>
AsciiLowerChars == <<"a","b","c","d","e","f","g","h","i","j","k","l","m",
                     "n","o","p","q","r","s","t","u","v","w","x","y","z">>
DigitChars == <<"0","1","2","3","4","5","6","7","8","9">>

\* The cased letters of U+00C0..U+00FE, in pairs (U+00D7 and U+00F7 are signs).
Latin1UpperChars == <<"À","Á","Â","Ã","Ä","Å","Æ","Ç","È","É","Ê","Ë","Ì","Í","Î","Ï",
                    "Ð","Ñ","Ò","Ó","Ô","Õ","Ö","Ø","Ù","Ú","Û","Ü","Ý","Þ">>
Latin1LowerChars == <<"à","á","â","ã","ä","å","æ","ç","è","é","ê","ë","ì","í","î","ï",
                    "ð","ñ","ò","ó","ô","õ","ö","ø","ù","ú","û","ü","ý","þ">>

\* The cased pairs with a letter from U+0100 on: U+0178/U+00FF and
\* U+039C/U+03BC.
OtherUpperChars == <<"U+0178", "U+039C">>
OtherLowerChars == <<"ÿ", "U+03BC">>

UpperChars == AsciiUpperChars \o Latin1UpperChars \o OtherUpperChars
LowerChars == AsciiLowerChars \o Latin1LowerChars \o OtherLowerChars

\* The alphabet of the model, in code-point order: the whitespace controls
\* U+0009..U+000D and U+001C..U+001F, U+0020..U+007E, U+0085, U+00A0..U+00FF
\* and the three letters from U+0100 on that the case mappings reach.
ControlChars == <<"\t","\n","","\f","\r","","","","">>
AsciiChars == <<" ","!","\"","#","$","%","&","'","(",")","*","+",",","-",".","/",
              "0","1","2","3","4","5","6","7","8","9",":",";","<","=",">","?",
              "@","A","B","C","D","E","F","G","H","I","J","K","L","M","N","O",
              "P","Q","R","S","T","U","V","W","X","Y","Z","[","\\","]","^","_","U+0060",
              "a","b","c","d","e","f","g","h","i","j","k","l","m","n","o",
              "p","q","r","s","t","u","v","w","x","y","z","{","|","}","~">>
Latin1Chars == <<""," ","¡","¢","£","¤","¥","¦","§","¨","©","ª","«","¬","­","®",
               "¯","°","±","²","³","´","µ","¶","·","¸","¹","º","»","¼","½","¾",
               "¿","À","Á","Â","Ã","Ä","Å","Æ","Ç","È","É","Ê","Ë","Ì","Í","Î",
               "Ï","Ð","Ñ","Ò","Ó","Ô","Õ","Ö","×","Ø","Ù","Ú","Û","Ü","Ý","Þ",
               "ß","à","á","â","ã","ä","å","æ","ç","è","é","ê","ë","ì","í","î",
               "ï","ð","ñ","ò","ó","ô","õ","ö","÷","ø","ù","ú","û","ü","ý","þ",
               "ÿ">>

HigherChars == <<"U+0178", "U+039C", "U+03BC">>

CharOrder == ControlChars \o AsciiChars \o Latin1Chars \o HigherChars

CharSet == {CharOrder[i] : i \in 1..Len(CharOrder)}

CharRankOf == [c \in CharSet |-> CHOOSE i \in 1..Len(CharOrder) : CharOrder[i] = c]

CharRank(c) == CharRankOf[c]

\* str.isspace() of one character: what str.strip() removes, str.split()
\* separates on and \s matches.
WhitespaceChars == <<"\t","\n","","\f","\r","","","",""," ",""," ">>

WhitespaceSet == {WhitespaceChars[i] : i \in 1..Len(WhitespaceChars)}

IsSpace(c) == c \in WhitespaceSet

DigitSet == {DigitChars[i] : i \in 1..10}

\* \d, and the digits int() reads (the alphabet has no other decimal digit).
IsDigit(c) == c \in DigitSet

DigitValue == [c \in DigitSet |-> (CHOOSE i \in 1..10 : DigitChars[i] = c) - 1]

DigitVal(c) == DigitValue[c]

AsciiUpperSet == {AsciiUpperChars[i] : i \in 1..26}
AsciiLowerSet == {AsciiLowerChars[i] : i \in 1..26}

UpperSet == {UpperChars[i] : i \in 1..Len(UpperChars)}
LowerSet == {LowerChars[i] : i \in 1..Len(LowerChars)}

ToLower == [c \in UpperSet |-> LowerChars[CHOOSE i \in 1..Len(UpperChars) : UpperChars[i] = c]]
ToUpper == [c \in LowerSet |-> UpperChars[CHOOSE i \in 1..Len(LowerChars) : LowerChars[i] = c]]

\* str.lower() of one character (one character for every character of the
\* alphabet).
LowerChar(c) == IF c \in UpperSet THEN ToLower[c] ELSE c

\* str.upper() of one character, as a text: the sharp s becomes "SS", the
\* micro sign U+00B5 the Greek capital U+039C.
UpperChar(c) ==
    IF c \in LowerSet THEN <<ToUpper[c]>>
    ELSE IF c = "ß" THEN <<"S", "S">>
    ELSE IF c = "µ" THEN <<"U+039C">>
    ELSE <<c>>

\* str.casefold() of one character, as a text: lower case, the sharp s
\* becomes "ss", the micro sign U+00B5 the Greek small U+03BC.
CasefoldChar(c) ==
    IF c = "ß" THEN <<"s", "s">>
    ELSE IF c = "µ" THEN <<"U+03BC">>
    ELSE <<LowerChar(c)>>

Lower(s) == [i \in 1..Len(s) |-> LowerChar(s[i])]

RECURSIVE Upper(_)
Upper(s) == IF s = <<>> THEN <<>> ELSE UpperChar(Head(s)) \o Upper(Tail(s))

RECURSIVE Casefold(_)
Casefold(s) == IF s = <<>> THEN <<>> ELSE CasefoldChar(Head(s)) \o Casefold(Tail(s))

\* First position >= i of s holding no whitespace (Len(s) + 1 when none).
RECURSIVE FirstNonSpace(_, _)
FirstNonSpace(s, i) ==
    IF i > Len(s) THEN i
    ELSE IF IsSpace(s[i]) THEN FirstNonSpace(s, i + 1) ELSE i

\* Last position <= i of s holding no whitespace (0 when none).
RECURSIVE LastNonSpace(_, _)
LastNonSpace(s, i) ==
    IF i < 1 THEN 0
    ELSE IF IsSpace(s[i]) THEN LastNonSpace(s, i - 1) ELSE i

\* str.strip(): drop leading and trailing whitespace.
Strip(s) == SubSeq(s, FirstNonSpace(s, 1), LastNonSpace(s, Len(s)))

\* str.startswith / str.endswith.
StartsWith(s, p) == Len(p) <= Len(s) /\ SubSeq(s, 1, Len(p)) = p

EndsWith(s, p) == Len(p) <= Len(s) /\ SubSeq(s, Len(s) - Len(p) + 1, Len(s)) = p

\* int() of a digit string.
RECURSIVE ParseInt(_)
ParseInt(s) ==
    IF Len(s) = 0 THEN 0
    ELSE 10 * ParseInt(SubSeq(s, 1, Len(s) - 1)) + DigitVal(s[Len(s)])

\* The whitespace int() skips at both ends of its argument: the ASCII blanks
\* U+0009..U+000D and U+0020, and the whitespace from U+0080 on (the
\* separators U+001C..U+001F are not skipped).
IsIntSpace(c) == IsSpace(c) /\ c \notin {"", "", "", ""}

\* int(s) of a text: blanks at both ends are dropped, a sign may come first,
\* and single underscores may stand between digits; [ok, value], ok = FALSE
\* stands for the ValueError.
int(s) ==
    LET first == {i \in 1..Len(s) : ~IsIntSpace(s[i])}
        t == IF first = {} THEN <<>>
             ELSE SubSeq(s, CHOOSE i \in first : \A j \in first : i <= j,
                            CHOOSE i \in first : \A j \in first : i >= j)
        signed == t # <<>> /\ t[1] \in {"+", "-"}
        body == IF signed THEN Tail(t) ELSE t
        wellFormed ==
            /\ body # <<>>
            /\ IsDigit(body[1])
            /\ IsDigit(body[Len(body)])
            /\ \A i \in 1..Len(body) :
                  \/ IsDigit(body[i])
                  \/ body[i] = "_" /\ IsDigit(body[i - 1]) /\ IsDigit(body[i + 1])
        magnitude == ParseInt(SelectSeq(body, IsDigit))
    IN  IF ~wellFormed THEN [ok |-> FALSE, value |-> 0]
        ELSE [ok |-> TRUE, value |-> IF signed /\ t[1] = "-" THEN -magnitude ELSE magnitude]

\* str() of a natural number.
RECURSIVE IntToStr(_)
IntToStr(n) ==
    IF n < 10 THEN <<DigitChars[n + 1]>>
    ELSE IntToStr(n \div 10) \o <<DigitChars[(n % 10) + 1]>>

----------------------------------------------------------------------------
(* Sheet row layout.                                                        *)

INPUT_FORM_COL_COUNT == 11
PROCESSED_INDEX == INPUT_FORM_COL_COUNT + 1

\* FormCols, as 1-based positions of a row sequence (the code's are 0-based).
ColTIMESTAMP == 1
ColROUTINE_NAME == 8
ColAUDIO_FILE_URL == 10

----------------------------------------------------------------------------
(* Row scanner.                                                             *)

\* Mutant: a short row is filled up with the marker.
PadRow_padsWithMarker(row, processed_col) ==
    IF Len(row) >= processed_col THEN row
    ELSE row \o [i \in 1..(processed_col - Len(row)) |-> <<"X">>]

\* while len(row) < processed_col: row.append("")
PadRow(row, processed_col) ==
    IF Len(row) >= processed_col THEN row
    ELSE row \o [i \in 1..(processed_col - Len(row)) |-> <<>>]

\* Mutant: the marker is compared without upper-casing.
IsProcessedCell_caseSensitive(cell) == Strip(cell) = <<"x">>

\* (row[processed_col - 1] or "").strip().upper() == "X"
IsProcessedCell(cell) == Upper(Strip(cell)) = <<"X">>

\* _iter_unprocessed_rows: the (idx, row) pairs the generator yields, in order,
\* from one get_all_values() result; idx starts at 2 for values[1].
RECURSIVE IterFrom(_, _, _)
IterFrom(vals, k, processed_col) ==
    IF k > Len(vals) THEN <<>>
    ELSE LET row == PadRow(vals[k], processed_col)
         IN  IF IsProcessedCell(row[processed_col])
             THEN IterFrom(vals, k + 1, processed_col)
             ELSE <<[idx |-> k, row |-> row]>> \o IterFrom(vals, k + 1, processed_col)

\* Mutant: rows are yielded whatever their processed cell holds.
iter_unprocessed_rows_ignoresFlag(vals, processed_col) ==
    [k \in 1..(Len(vals) - 1) |-> [idx |-> k + 1, row |-> PadRow(vals[k + 1], processed_col)]]

\* Mutant: the enumeration starts at the header row.
iter_unprocessed_rows_fromHeader(vals, processed_col) == IterFrom(vals, 1, processed_col)

iter_unprocessed_rows(vals, processed_col) == IterFrom(vals, 2, processed_col)

----------------------------------------------------------------------------
(* Version resolver (drive_ops.resolve_versioned_filename).                 *)

pageSize == 1000

\* Position of the last occurrence of character c in s at or before i, 0 when
\* there is none.
RECURSIVE LastIndexUpTo(_, _, _)
LastIndexUpTo(s, c, i) ==
    IF i < 1 THEN 0
    ELSE IF s[i] = c THEN i ELSE LastIndexUpTo(s, c, i - 1)

LastIndexOf(s, c) == LastIndexUpTo(s, c, Len(s))

\* if "." in name: base, ext = name.rsplit(".", 1); ext = "." + ext
\* else: base, ext = name, ""
SplitExt(name) ==
    LET d == LastIndexOf(name, ".")
    IN  IF d = 0 THEN [base |-> name, ext |-> <<>>]
        ELSE [base |-> SubSeq(name, 1, d - 1), ext |-> SubSeq(name, d, Len(name))]

\* Last position <= i of s holding no digit (0 when none).
RECURSIVE LastNonDigit(_, _)
LastNonDigit(s, i) ==
    IF i < 1 THEN 0
    ELSE IF IsDigit(s[i]) THEN LastNonDigit(s, i - 1) ELSE i

\* Where $ matches in s: at the end, and before a newline that ends s.
VersionMatchEnd(s) == IF s # <<>> /\ s[Len(s)] = "\n" THEN Len(s) - 1 ELSE Len(s)

\* _VERSION_RE = re.compile(r"_v(\d+)$"): start of the match in s (1-based), 0
\* when s does not end in "_v" followed by one or more digits.
VersionMatchStart(s) ==
    LET e == VersionMatchEnd(s)
        lastnd == LastNonDigit(s, e)
    IN  IF lastnd >= 2 /\ lastnd < e /\ s[lastnd] = "v" /\ s[lastnd - 1] = "_"
        THEN lastnd - 1
        ELSE 0

\* int(m.group(1)) of a string VersionMatchStart accepts.
VersionOf(s) == ParseInt(SubSeq(s, VersionMatchStart(s) + 2, VersionMatchEnd(s)))

\* The loop over resp["files"]: the versions the code takes to be in use.
used_versions(listing, base_root_lc, ext_lc) ==
    {VersionOf(SubSeq(Lower(listing[i]), 1, Len(listing[i]) - Len(ext_lc))) :
        i \in {j \in 1..Len(listing) :
                 LET name_lc == Lower(listing[j])
                     stem == SubSeq(name_lc, 1, Len(name_lc) - Len(ext_lc))
                 IN  /\ (ext_lc # <<>> => EndsWith(name_lc, ext_lc))
                     /\ StartsWith(stem, base_root_lc)
                     /\ VersionMatchStart(stem) # 0}}

\* v = start_version; while v in used_versions: v += 1
\* The loop stops at the first integer from v on that is not in used; it is
\* one of the Cardinality(used) + 1 integers from v on.
FirstFree(v, used) ==
    LET free == {k \in v..(v + Cardinality(used)) : k \notin used}
    IN  CHOOSE k \in free : \A j \in free : k <= j

\* Whether the desired name passes the _vN check (otherwise ValueError).
DesiredIsValid(desired) == VersionMatchStart(SplitExt(desired).base) # 0

\* The query string's needle: base_root + "_v".
QueryNeedle(desired) ==
    LET base == SplitExt(desired).base
    IN  SubSeq(base, 1, VersionMatchStart(base) - 1) \o <<"_", "v">>

\* resolve_versioned_filename on a valid desired name, given the files the one
\* list call returned: (available_filename, version).
resolve_versioned_filename(listing, desired) ==
    LET sp == SplitExt(desired)
        base == sp.base
        ext == sp.ext
        base_root == SubSeq(base, 1, VersionMatchStart(base) - 1)
        start_version == VersionOf(base)
        v == FirstFree(start_version, used_versions(listing, Lower(base_root), Lower(ext)))
    IN  [name |-> base_root \o <<"_", "v">> \o IntToStr(v) \o ext, version |-> v]

\* Drive's "name contains '<needle>'": the needle occurs in the name; Drive
\* compares names without regard to case.
NameContains(name, needle) ==
    LET n == Lower(name)
        p == Lower(needle)
    IN  \E i \in 1..(Len(n) - Len(p) + 1) : SubSeq(n, i, i + Len(p) - 1) = p

\* The files of the folder the query matches, in the folder's order.
FilterContains(files, needle) ==
    LET Matches(name) == NameContains(name, needle)
    IN  SelectSeq(files, Matches)

\* files().list(q=..., pageSize=1000).execute(): the pages the backend may
\* return as the first page. The code never follows nextPageToken. Drive fixes
\* no order for a list call without orderBy: oldest-first and newest-first are
\* the two orders modelled.
FirstPages(folder, needle) ==
    LET m == FilterContains(folder, needle)
    IN  IF Len(m) <= pageSize THEN {m}
        ELSE {SubSeq(m, 1, pageSize), SubSeq(m, Len(m) - pageSize + 1, Len(m))}

----------------------------------------------------------------------------
(* Parsing and naming helpers of the pipeline.                              *)

IsAsciiAlnum(c) == c \in DigitSet \/ c \in AsciiUpperSet \/ c \in AsciiLowerSet

\* The characters from U+0080 on that \w matches besides the cased letters:
\* letters without a case pair and the numeric signs.
OtherWordChars == {"ª", "²", "³", "µ", "¹", "º", "¼", "½", "¾", "ß", "ÿ"}

\* \w of a str pattern: a letter, a digit or a numeric sign of any script, or
\* the underscore.
IsReWordChar(c) ==
    \/ IsAsciiAlnum(c)
    \/ c = "_"
    \/ c \in UpperSet
    \/ c \in LowerSet
    \/ c \in OtherWordChars

\* [-\w]: a character of a Drive file id.
IsIdChar(c) == IsReWordChar(c) \/ c = "-"

DRIVE_ID_MIN == 25

\* Last position of the run of id characters that starts at position i.
RECURSIVE IdRunEnd(_, _)
IdRunEnd(url, i) ==
    IF i < Len(url) /\ IsIdChar(url[i + 1]) THEN IdRunEnd(url, i + 1) ELSE i

\* _DRIVE_ID_RE.search from position i: the leftmost run of 25 or more id
\* characters, whole (the match is greedy); <<>> when there is none.
RECURSIVE IdSearch(_, _)
IdSearch(url, i) ==
    IF i > Len(url) THEN <<>>
    ELSE IF ~IsIdChar(url[i]) THEN IdSearch(url, i + 1)
    ELSE LET e == IdRunEnd(url, i)
         IN  IF e - i + 1 >= DRIVE_ID_MIN THEN SubSeq(url, i, e)
             ELSE IdSearch(url, e + 1)

\* extract_drive_file_id: <<>> stands for None.
extract_drive_file_id(url) == IdSearch(url, 1)

\* _sanitize_user_entered_data_from_form: trim, treat "_" as a separator, split
\* on every character that is not an ASCII letter or digit, capitalise each
\* segment (first character upper, rest lower) and join the segments.
RECURSIVE SanitizeFrom(_, _, _)
SanitizeFrom(s, i, atStart) ==
    IF i > Len(s) THEN <<>>
    ELSE IF ~IsAsciiAlnum(s[i]) THEN SanitizeFrom(s, i + 1, TRUE)
    ELSE (IF atStart THEN UpperChar(s[i]) ELSE <<LowerChar(s[i])>>)
         \o SanitizeFrom(s, i + 1, FALSE)

IsWordChar(c) == IsAsciiAlnum(c) \/ c = "_"

\* Mutant: underscores are kept as they were typed and the case is left alone.
sanitize_user_entered_data_from_form_keepsUnderscores(v) == SelectSeq(Strip(v), IsWordChar)

sanitize_user_entered_data_from_form(v) == SanitizeFrom(Strip(v), 1, TRUE)

\* str.split(sep): the parts between separators, empty parts kept.
RECURSIVE SplitOn(_, _)
SplitOn(s, sep) ==
    LET seps == {j \in 1..Len(s) : s[j] = sep}
    IN  IF seps = {} THEN <<s>>
        ELSE LET e == CHOOSE j \in seps : \A k \in seps : j <= k
             IN  <<SubSeq(s, 1, e - 1)>> \o SplitOn(SubSeq(s, e + 1, Len(s)), sep)

AllDigits(s) == Len(s) >= 1 /\ \A i \in 1..Len(s) : IsDigit(s[i])

IsLeapYear(y) == (y % 4 = 0 /\ y % 100 # 0) \/ y % 400 = 0

DaysInMonth(y, m) ==
    IF m = 2 THEN (IF IsLeapYear(y) THEN 29 ELSE 28)
    ELSE IF m \in {4, 6, 9, 11} THEN 30 ELSE 31

\* What a directive of the format matches: one or two digits (%m, %d, %H,
\* %M, %S take no third digit and no sign).
IsNumberText(t) == AllDigits(t) /\ Len(t) <= 2

\* %d: 3[0-1]|[1-2]\d|0[1-9]|[1-9]| [1-9] -- a day may be padded with a blank.
DayDigits(t) == IF Len(t) = 2 /\ t[1] = " " THEN <<t[2]>> ELSE t

\* datetime.strptime(timestamp.strip(), "%m/%d/%Y %H:%M:%S"): the parsed
\* [ok, year, month]; ok = FALSE stands for the ValueError.  The format is
\* matched as the pattern
\*   (1[0-2]|0[1-9]|[1-9])/(3[0-1]|[1-2]\d|0[1-9]|[1-9]| [1-9])/(\d\d\d\d)\s+
\*   (2[0-3]|[0-1]\d|\d):([0-5]\d|\d):(6[0-1]|[0-5]\d|\d)
\* against the whole text, and datetime then checks the ranges.
strptime(timestamp) ==
    LET d == SplitOn(Strip(timestamp), "/")
        bad == [ok |-> FALSE, year |-> 0, month |-> 0]
    IN  IF Len(d) # 3 THEN bad
        ELSE IF Len(d[3]) < 6 \/ ~AllDigits(SubSeq(d[3], 1, 4)) \/ ~IsSpace(d[3][5]) THEN bad
        ELSE LET h == SplitOn(SubSeq(d[3], FirstNonSpace(d[3], 5), Len(d[3])), ":")
             IN  IF Len(h) # 3 THEN bad
                 ELSE IF ~(/\ IsNumberText(d[1])
                           /\ IsNumberText(DayDigits(d[2]))
                           /\ \A i \in 1..3 : IsNumberText(h[i])) THEN bad
                 ELSE LET mo == ParseInt(d[1])
                          dy == ParseInt(DayDigits(d[2]))
                          yr == ParseInt(SubSeq(d[3], 1, 4))
                      IN  IF /\ mo \in 1..12
                             /\ yr >= 1
                             /\ dy \in 1..DaysInMonth(yr, mo)
                             /\ ParseInt(h[1]) <= 23
                             /\ ParseInt(h[2]) <= 59
                             /\ ParseInt(h[3]) <= 59
                          THEN [ok |-> TRUE, year |-> yr, month |-> mo]
                          ELSE bad

\* Mutant: the season rolls over in December only.
parse_routine_season_year_rollsInDecember(timestamp) ==
    LET dt == strptime(timestamp)
    IN  IntToStr(dt.year + (IF dt.month >= 12 THEN 1 ELSE 0))

\* _parse_routine_season_year of a timestamp strptime accepts.
parse_routine_season_year(timestamp) ==
    LET dt == strptime(timestamp)
    IN  IntToStr(dt.year + (IF dt.month >= 11 THEN 1 ELSE 0))

\* file_translations._parse_season_year of a timestamp strptime accepts.
parse_season_year(timestamp) ==
    LET dt == strptime(timestamp)
    IN  IntToStr(dt.year + (IF dt.month >= 11 THEN 1 ELSE 0))

\* "_".join(parts)
RECURSIVE JoinUnderscore(_)
JoinUnderscore(parts) ==
    IF Len(parts) = 0 THEN <<>>
    ELSE IF Len(parts) = 1 THEN parts[1]
    ELSE parts[1] \o <<"_">> \o JoinUnderscore(Tail(parts))

\* Mp3Renamer.build_routine_filename as the pipeline calls it, with the season
\* already computed: leader_follower_division, then the season, then the
\* routine and the descriptor when they are not empty.
build_routine_filename(season_year, leader, follower, division, routine, descriptor) ==
    LET prefix == JoinUnderscore(<<leader, follower, division>>)
        tail_parts == <<season_year>>
                      \o (IF routine # <<>> THEN <<routine>> ELSE <<>>)
                      \o (IF descriptor # <<>> THEN <<descriptor>> ELSE <<>>)
    IN  prefix \o <<"_">> \o JoinUnderscore(tail_parts)

\* Mutant: the descriptor is appended before the routine.
build_base_filename_descriptorFirst(timestamp, leader, follower, division, routine, descriptor) ==
    LET season_year == parse_season_year(timestamp)
        prefix == JoinUnderscore(<<leader, follower, division>>)
        tail_parts == <<season_year>>
                      \o (IF descriptor # <<>> THEN <<descriptor>> ELSE <<>>)
                      \o (IF routine # <<>> THEN <<routine>> ELSE <<>>)
    IN  [base |-> prefix \o <<"_">> \o JoinUnderscore(tail_parts), season_year |-> season_year]

\* file_translations.build_base_filename of a timestamp strptime accepts:
\* (base_without_version_or_ext, season_year).
build_base_filename(timestamp, leader, follower, division, routine, descriptor) ==
    LET season_year == parse_season_year(timestamp)
        prefix == JoinUnderscore(<<leader, follower, division>>)
        tail_parts == <<season_year>>
                      \o (IF routine # <<>> THEN <<routine>> ELSE <<>>)
                      \o (IF descriptor # <<>> THEN <<descriptor>> ELSE <<>>)
    IN  [base |-> prefix \o <<"_">> \o JoinUnderscore(tail_parts), season_year |-> season_year]

\* build_tag_title: "<leader> & <follower>".strip()
build_tag_title(leader_first, leader_last, follower_first, follower_last) ==
    Strip(Strip(leader_first) \o Strip(leader_last) \o <<" ", "&", " ">>
          \o Strip(follower_first) \o Strip(follower_last))

----------------------------------------------------------------------------
(* Deletion fallback (drive_ops.delete_drive_file).                         *)

\* What the backend answers during one delete_drive_file call:
\*   capsOk     the capabilities query succeeds
\*   canDelete, canTrash   the capabilities the file has
\*   deleteOk, trashOk     the hard delete / the trash update succeeds
\*   ensureOk   resolving or creating the processed-originals folder succeeds
\*   parentsOk  the lookup of the file's current parents succeeds
\*   moveOk     the addParents/removeParents update succeeds
\* A call the file's capability forbids is refused.
DeleteEnvs ==
    {e \in [capsOk : BOOLEAN, canDelete : BOOLEAN, canTrash : BOOLEAN,
            deleteOk : BOOLEAN, trashOk : BOOLEAN, ensureOk : BOOLEAN,
            parentsOk : BOOLEAN, moveOk : BOOLEAN] :
        (e.deleteOk => e.canDelete) /\ (e.trashOk => e.canTrash)}

\* Mutant: tiers 1 and 2 are never skipped.
skip_delete_trash_never(can_delete, can_trash) == FALSE

\* skip_delete_trash = (not can_delete) and (not can_trash)
skip_delete_trash(can_delete, can_trash) == (~can_delete) /\ (~can_trash)

\* raise PermissionError("Unable to delete or trash Drive file ...")
unable_to_clean == "PermissionError"

\* Mutant: unreadable capabilities count as "nothing allowed".
caps_when_unreadable_failClosed == FALSE

\* except Exception: can_delete = True; can_trash = True
caps_when_unreadable == TRUE

\* Mutant: the trash update is issued even after the hard delete succeeded.
tier12_calls_trashAfterDelete(skip, delete_ok) ==
    IF skip THEN <<>> ELSE <<"delete", "trash">>

\* The calls of tiers 1 and 2: none when both are skipped, the hard delete
\* alone when it succeeds (return), else the hard delete and the trash update.
tier12_calls(skip, delete_ok) ==
    IF skip THEN <<>>
    ELSE IF delete_ok THEN <<"delete">>
    ELSE <<"delete", "trash">>

\* Mutant: tier 3 is entered without a fallback folder id.
tier3_enabled_always(hasFallback) == TRUE

\* if fallback_remove_parent_id:
tier3_enabled(hasFallback) == hasFallback

\* delete_drive_file(file_id, fallback_remove_parent_id) on a file in state f
\* (f.parents: the folders holding it). Returns the outcome ("Deleted",
\* "Trashed", "Quarantined", or the exception raised), the Drive calls issued
\* after the two metadata reads, and the file's new state. hasFallback is
\* bool(fallback_remove_parent_id); the fallback parent is the intake folder.
delete_drive_file(f, hasFallback, e) ==
    LET can_delete == IF e.capsOk THEN e.canDelete ELSE caps_when_unreadable
        can_trash == IF e.capsOk THEN e.canTrash ELSE caps_when_unreadable
        skip == skip_delete_trash(can_delete, can_trash)
        tier12 == tier12_calls(skip, e.deleteOk)
        current_parents == IF e.parentsOk THEN f.parents ELSE {}
        remove_parents == IF current_parents # {} /\ "intake" \in current_parents
                          THEN {"intake"}
                          ELSE current_parents
    IN  IF ~skip /\ e.deleteOk
        THEN [outcome |-> "Deleted", ops |-> tier12,
              file |-> [f EXCEPT !.exists = FALSE, !.parents = {}]]
        ELSE IF ~skip /\ e.trashOk
        THEN [outcome |-> "Trashed", ops |-> tier12,
              file |-> [f EXCEPT !.trashed = TRUE]]
        ELSE IF ~tier3_enabled(hasFallback)
        THEN [outcome |-> unable_to_clean, ops |-> tier12, file |-> f]
        ELSE IF ~e.ensureOk
        THEN [outcome |-> "Error", ops |-> tier12 \o <<"ensure_folder">>, file |-> f]
        ELSE IF e.moveOk
        THEN [outcome |-> "Quarantined",
              ops |-> tier12 \o <<"ensure_folder", "get_parents", "move">>,
              file |-> [f EXCEPT !.parents = (f.parents \ remove_parents) \cup {"processed"}]]
        ELSE [outcome |-> unable_to_clean,
              ops |-> tier12 \o <<"ensure_folder", "get_parents", "move">>,
              file |-> f]

DeleteSucceeded(outcome) == outcome \in {"Deleted", "Trashed", "Quarantined"}

----------------------------------------------------------------------------
(* Submission log writer.                                                   *)

\* headers = ["Timestamp", "Partnership", "Division", "Routine Name", "Descriptor", "Version"]
LEDGER_HEADERS ==
    << <<"T", "i", "m", "e", "s", "t", "a", "m", "p">>,
       <<"P", "a", "r", "t", "n", "e", "r", "s", "h", "i", "p">>,
       <<"D", "i", "v", "i", "s", "i", "o", "n">>,
       <<"R", "o", "u", "t", "i", "n", "e", " ", "N", "a", "m", "e">>,
       <<"D", "e", "s", "c", "r", "i", "p", "t", "o", "r">>,
       <<"V", "e", "r", "s", "i", "o", "n">> >>

\* a < b for Python strings.
RECURSIVE StrLess(_, _)
StrLess(a, b) ==
    IF b = <<>> THEN FALSE
    ELSE IF a = <<>> THEN TRUE
    ELSE IF Head(a) = Head(b) THEN StrLess(Tail(a), Tail(b))
    ELSE CharRank(Head(a)) < CharRank(Head(b))

\* _version_num: int((r[5] or "").strip()), 0 when that raises.
version_num(r) ==
    IF Len(r) >= 6 /\ int(Strip(r[6])).ok THEN int(Strip(r[6])).value ELSE 0

\* _partnership_key: (r[1] or "").strip().casefold()
partnership_key(r) == Casefold(Strip(r[2]))

\* The sort key (partnership_key, -version_num) orders a strictly before b.
KeyLess(a, b) ==
    \/ StrLess(partnership_key(a), partnership_key(b))
    \/ /\ partnership_key(a) = partnership_key(b)
       /\ version_num(a) > version_num(b)

\* list.sort(key=...): stable insertion of r into an already sorted list.
RECURSIVE InsertSorted(_, _)
InsertSorted(sorted, r) ==
    IF sorted = <<>> THEN <<r>>
    ELSE IF KeyLess(r, Head(sorted)) THEN <<r>> \o sorted
    ELSE <<Head(sorted)>> \o InsertSorted(Tail(sorted), r)

RECURSIVE SortRows(_)
SortRows(rows) ==
    IF rows = <<>> THEN <<>>
    ELSE InsertSorted(SortRows(SubSeq(rows, 1, Len(rows) - 1)), rows[Len(rows)])

\* any((c or "").strip() for c in r)
IsNonBlankRow(r) == \E i \in 1..Len(r) : Strip(r[i]) # <<>>

BlankRow == [i \in 1..6 |-> <<>>]

\* _append_and_sort_submission_log_row on the tab's values; failAt names the
\* call of the resort step that raises ("none", "read", "clear", "update").
\* Returns the tab's values after the call.
append_and_sort_submission_log_row(vals, row, failAt) ==
    LET appended == Append(vals, row)
        rest == Tail(appended)
        data_rows == SelectSeq(rest, IsNonBlankRow)
        end_row == 1 + Len(data_rows)
        below == SubSeq(appended, end_row + 1, Len(appended))
    IN  IF failAt = "read" \/ Len(appended) <= 2 \/ data_rows = <<>> THEN appended
        ELSE IF failAt = "clear" THEN appended
        ELSE IF failAt = "update"
        THEN <<Head(appended)>> \o [i \in 1..Len(data_rows) |-> BlankRow] \o below
        ELSE <<Head(appended)>> \o SortRows(data_rows) \o below

----------------------------------------------------------------------------
(* Bounds and inputs of the pipeline specification.                         *)

NumRows == 2     \* data rows of the intake sheet
MaxRuns == 2     \* runs of process_submission_sheet in one behaviour
MaxFaults == 1   \* injected backend failures and crashes in one behaviour

\* A Drive file id: 25 id characters, distinct per submission (a form upload
\* creates one Drive file per response).
FileId(n) == <<"f">> \o IntToStr(n) \o [i \in 1..(DRIVE_ID_MIN - 1 - Len(IntToStr(n))) |-> "0"]

FileUrl(n) == <<"d", "/">> \o FileId(n) \o <<"/", "v">>

FileIndex(file_id) == CHOOSE n \in 1..(NumRows + 1) : FileId(n) = file_id

TsJanuary == <<"1","/","1","8","/","2","0","2","6"," ","2","0",":","0","0",":","0","0">>
TsNovember == <<"1","1","/","1","9","/","2","0","2","5"," ","2","3",":","1","6",":","4","0">>
TsBad == <<"b","a","d">>

RowKinds == {"plain", "routine", "nourl", "badurl", "badts", "done"}

\* One form response row (12 cells) of the given kind for submission n.
FormRow(kind, n) ==
    << IF kind = "badts" THEN TsBad ELSE IF kind = "routine" THEN TsNovember ELSE TsJanuary,
       <<"e">>,
       <<" ", "a", "l">>, <<"l">>, <<"b">>, <<"f">>,
       <<"N">>,
       IF kind = "routine" THEN <<"v", "o">> ELSE <<>>,
       <<>>,
       IF kind = "nourl" THEN <<>> ELSE IF kind = "badurl" THEN <<"d", "/", "x">> ELSE FileUrl(n),
       <<"y">>,
       IF kind = "done" THEN <<" ", "x">> ELSE <<>> >>

HeaderRow == [i \in 1..PROCESSED_INDEX |-> <<"H">>]

SourceFile(kind) ==
    [exists |-> kind # "done", trashed |-> FALSE,
     parents |-> IF kind = "done" THEN {} ELSE {"intake"},
     name |-> <<"s", ".", "m">>]

NoCur == [idx |-> 0, file_id |-> <<>>, base |-> <<>>, title |-> <<>>,
          ext |-> <<>>, final |-> <<>>, version |-> 0]

NoTab == [exists |-> FALSE, formatted |-> FALSE, vals |-> <<>>]

\* The state before the first run: a sheet of NumRows form responses below
\* the header, each with its own source file in the intake folder (a response
\* already marked has had its source removed), an empty destination folder
\* and no log tab. perms are the capabilities the account has on the source
\* files; an account that may delete may also trash.
Init ==
    /\ \E kinds \in [1..NumRows -> RowKinds] :
         /\ sheet = <<HeaderRow>> \o [n \in 1..NumRows |-> FormRow(kinds[n], n)]
         /\ srcState = [n \in 1..NumRows |-> SourceFile(kinds[n])]
    /\ perms \in {p \in [canDelete : BOOLEAN, canTrash : BOOLEAN] : p.canDelete => p.canTrash}
    /\ values = <<>>
    /\ queue = <<>>
    /\ pc = "idle"
    /\ cur = NoCur
    /\ destFiles = <<>>
    /\ ledger = NoTab
    /\ calls = <<>>
    /\ runs = 0
    /\ faults = 0
    /\ clean = TRUE
    /\ stats = [n \in 1..NumRows |-> [commits |-> 0, uploads |-> 0, appends |-> 0, identified |-> FALSE]]
    /\ res_in = <<>>
    /\ res_out = <<>>

----------------------------------------------------------------------------
(* process_submission_sheet: one action per call the loop body makes.       *)

Idle == {"idle", "done", "crashed", "read_error", "snapshot_error"}

\* Mutant: the original is cleaned up before the upload.
NextStep_deleteBeforeUpload(step) ==
    CASE step = "prepare" -> "ensure_folder"
      [] step = "ensure_folder" -> "download"
      [] step = "download" -> "resolve"
      [] step = "resolve" -> "delete"
      [] step = "delete" -> "upload"
      [] step = "upload" -> "log"
      [] step = "log" -> "commit"
      [] step = "commit" -> "loop"

\* The order of the steps of the loop body for one row.
NextStep(step) ==
    CASE step = "prepare" -> "ensure_folder"
      [] step = "ensure_folder" -> "download"
      [] step = "download" -> "resolve"
      [] step = "resolve" -> "upload"
      [] step = "upload" -> "log"
      [] step = "log" -> "delete"
      [] step = "delete" -> "commit"
      [] step = "commit" -> "loop"

\* Mutant: a cleanup failure is swallowed and the row is marked anyway.
AfterRaise_commitAfterFailedDelete(step) == IF step = "delete" THEN "commit" ELSE "loop"

\* Mutant: an upload failure is swallowed like a logging failure.
AfterRaise_goOnAfterFailedUpload(step) == IF step = "upload" THEN "log" ELSE "loop"

\* Mutant: the step that raised is tried again.
AfterRaise_retriesStep(step) == step

\* Mutant: the exception of a row leaves the loop and ends the run.
AfterRaise_endsRun(step) == "done"

\* Mutant: a record whose preparation raised goes on to the storage steps.
AfterRaise_goesOnAfterFailedPrepare(step) == IF step = "prepare" THEN "ensure_folder" ELSE "loop"

\* except Exception: log.exception(...) -- the loop goes on with the next row.
AfterRaise(step) == "loop"

\* Mutant: a row without a usable reference goes on through the pipeline.
AfterSkip_goesOn(step) == NextStep(step)

\* if not sub.audio_url: continue / if not file_id: continue
AfterSkip(step) == "loop"

Ev(op, ok) == [op |-> op, row |-> cur.idx, ok |-> ok]

\* The row the scanner yielded for the current iteration (padded copy of the
\* snapshot's row).
CurRow == PadRow(values[cur.idx], PROCESSED_INDEX)

Raise(step) ==
    /\ pc' = AfterRaise(step)
    /\ calls' = Append(calls, Ev(step, FALSE))

InjectFault ==
    /\ faults < MaxFaults
    /\ faults' = faults + 1
    /\ clean' = FALSE

NoFault == UNCHANGED <<faults, clean>>

\* Mutant: a failed read of the sheet is swallowed and the run ends normally.
on_read_error_returnsNormally == "done"

\* sheet.get_all_values() raises on the first step of the for loop, outside
\* the try of the loop body: the exception leaves process_submission_sheet.
on_read_error == "read_error"

\* ss.worksheet(...); _iter_unprocessed_rows: values = sheet.get_all_values()
StartRun ==
    /\ pc \in Idle
    /\ runs < MaxRuns
    /\ runs' = runs + 1
    /\ calls' = <<>>
    /\ cur' = NoCur
    /\ \/ /\ values' = sheet
          /\ LET yielded == iter_unprocessed_rows(sheet, PROCESSED_INDEX)
             IN  queue' = [i \in 1..Len(yielded) |-> yielded[i].idx]
          /\ pc' = "loop"
          /\ faults' = faults
          /\ clean' = TRUE
       \/ /\ faults < MaxFaults
          /\ faults' = faults + 1
          /\ clean' = FALSE
          /\ values' = <<>>
          /\ queue' = <<>>
          /\ pc' = on_read_error
    /\ UNCHANGED <<perms, sheet, srcState, destFiles, ledger, stats, res_in, res_out>>

\* for row_num, row in _iter_unprocessed_rows(...): the generator yields.
NextRow ==
    /\ pc = "loop"
    /\ queue # <<>>
    /\ cur' = [NoCur EXCEPT !.idx = Head(queue)]
    /\ queue' = Tail(queue)
    /\ pc' = "prepare"
    /\ UNCHANGED <<perms, sheet, values, srcState, destFiles, ledger, calls, runs,
                   faults, clean, stats, res_in, res_out>>

\* g.sheets.normalize_row(row[:INPUT_FORM_COL_COUNT])
normalize_row(row) ==
    [i \in 1..(IF Len(row) < INPUT_FORM_COL_COUNT THEN Len(row) ELSE INPUT_FORM_COL_COUNT)
        |-> Strip(row[i])]

\* Lines 186-219: parse the row, skip on a missing url or file id, compute the
\* season and the base file name.
Prepare ==
    /\ pc = "prepare"
    /\ LET r == normalize_row(CurRow)
           S(v) == sanitize_user_entered_data_from_form(v)
       IN  IF Len(r) < INPUT_FORM_COL_COUNT
           THEN Raise("prepare") /\ cur' = cur
           ELSE IF r[ColAUDIO_FILE_URL] = <<>>
           THEN /\ pc' = AfterSkip("prepare")
                /\ UNCHANGED <<calls, cur>>
           ELSE IF extract_drive_file_id(r[ColAUDIO_FILE_URL]) = <<>>
           THEN /\ pc' = AfterSkip("prepare")
                /\ calls' = Append(calls, Ev("extract_drive_file_id", TRUE))
                /\ cur' = cur
           ELSE IF ~strptime(r[ColTIMESTAMP]).ok
           THEN /\ pc' = AfterRaise("prepare")
                /\ calls' = calls \o <<Ev("extract_drive_file_id", TRUE), Ev("prepare", FALSE)>>
                /\ cur' = cur
           ELSE /\ pc' = NextStep("prepare")
                /\ calls' = Append(calls, Ev("extract_drive_file_id", TRUE))
                /\ cur' = [cur EXCEPT
                             !.file_id = extract_drive_file_id(r[ColAUDIO_FILE_URL]),
                             !.base = build_routine_filename(
                                         parse_routine_season_year(r[ColTIMESTAMP]),
                                         S(r[3]) \o S(r[4]), S(r[5]) \o S(r[6]), S(r[7]),
                                         S(r[ColROUTINE_NAME]), S(r[9])),
                             !.title = build_tag_title(S(r[3]), S(r[4]), S(r[5]), S(r[6]))]
    /\ stats' = [stats EXCEPT ![cur.idx - 1].identified =
                    @ \/ (/\ Len(normalize_row(CurRow)) >= INPUT_FORM_COL_COUNT
                          /\ extract_drive_file_id(normalize_row(CurRow)[ColAUDIO_FILE_URL]) # <<>>)]
    /\ UNCHANGED <<perms, sheet, values, queue, srcState, destFiles, ledger, runs,
                   faults, clean, res_in, res_out>>

\* dest_folder_id = drive.ensure_folder(root, division_folder_name)
EnsureFolder ==
    /\ pc = "ensure_folder"
    /\ \/ /\ pc' = NextStep("ensure_folder")
          /\ calls' = Append(calls, Ev("ensure_folder", TRUE))
          /\ NoFault
       \/ /\ InjectFault
          /\ Raise("ensure_folder")
    /\ UNCHANGED <<perms, sheet, values, queue, cur, srcState, destFiles, ledger, runs,
                   stats, res_in, res_out>>

\* original = drive.download_file_bytes(file_id): a file that no longer exists
\* cannot be downloaded.
Download ==
    /\ pc = "download"
    /\ LET f == srcState[FileIndex(cur.file_id)]
       IN  \/ /\ f.exists
              /\ pc' = NextStep("download")
              /\ calls' = Append(calls, Ev("download", TRUE))
              /\ cur' = [cur EXCEPT !.ext =
                            IF LastIndexOf(f.name, ".") = 0 THEN <<>>
                            ELSE SubSeq(f.name, LastIndexOf(f.name, ".") + 1, Len(f.name))]
              /\ NoFault
           \/ /\ ~f.exists
              /\ Raise("download")
              /\ cur' = cur
              /\ NoFault
           \/ /\ f.exists
              /\ InjectFault
              /\ Raise("download")
              /\ cur' = cur
    /\ UNCHANGED <<perms, sheet, values, queue, srcState, destFiles, ledger, runs,
                   stats, res_in, res_out>>

DestNames == [i \in 1..Len(destFiles) |-> destFiles[i].name]

\* desired = f"{base_no_ver_no_ext}_v1" + (f".{ext}" if ext else "")
DesiredName(base, ext) ==
    base \o <<"_", "v", "1">> \o (IF ext # <<>> THEN <<".">> \o ext ELSE <<>>)

\* final_filename, version = drive.resolve_versioned_filename(...)
Resolve ==
    /\ pc = "resolve"
    /\ \/ /\ \E page \in FirstPages(DestNames, QueryNeedle(DesiredName(cur.base, cur.ext))) :
                LET r == resolve_versioned_filename(page, DesiredName(cur.base, cur.ext))
                IN  cur' = [cur EXCEPT !.final = r.name, !.version = r.version]
          /\ pc' = NextStep("resolve")
          /\ calls' = Append(calls, Ev("resolve", TRUE))
          /\ NoFault
       \/ /\ InjectFault
          /\ Raise("resolve")
          /\ cur' = cur
    /\ UNCHANGED <<perms, sheet, values, queue, srcState, destFiles, ledger, runs,
                   stats, res_in, res_out>>

\* tagged_bytes = tag_audio_bytes_preserve_previous(...);
\* new_file_id = drive.upload_bytes(parent_id, filename, content, mime_type):
\* the file is created, or one of the two calls raises and nothing is created.
Upload ==
    /\ pc = "upload"
    /\ \/ /\ destFiles' = Append(destFiles, [name |-> cur.final, from |-> FileIndex(cur.file_id)])
          /\ stats' = [stats EXCEPT ![cur.idx - 1].uploads = @ + 1]
          /\ pc' = NextStep("upload")
          /\ calls' = Append(calls, Ev("upload", TRUE))
          /\ NoFault
       \/ /\ InjectFault
          /\ Raise("upload")
          /\ UNCHANGED <<destFiles, stats>>
    /\ UNCHANGED <<perms, sheet, values, queue, cur, srcState, ledger, runs, res_in, res_out>>

\* Mutant: the formatting is applied to every tab the call returns.
ensure_division_tab_and_headers_formatsAlways(tab) ==
    LET created == ~tab.exists
        vals == IF created THEN <<>> ELSE tab.vals
        existing == IF Len(vals) >= 1 THEN vals[1] ELSE <<>>
        first6 == SubSeq(existing, 1, IF Len(existing) < 6 THEN Len(existing) ELSE 6)
        newvals == IF first6 = LEDGER_HEADERS THEN vals
                   ELSE IF vals = <<>> THEN <<LEDGER_HEADERS>>
                   ELSE [vals EXCEPT ![1] = LEDGER_HEADERS \o SubSeq(existing, 7, Len(existing))]
    IN  [exists |-> TRUE, formatted |-> TRUE, vals |-> newvals]

\* _ensure_division_tab_and_headers: the tab after the call.
ensure_division_tab_and_headers(tab) ==
    LET created == ~tab.exists
        vals == IF created THEN <<>> ELSE tab.vals
        existing == IF Len(vals) >= 1 THEN vals[1] ELSE <<>>
        first6 == SubSeq(existing, 1, IF Len(existing) < 6 THEN Len(existing) ELSE 6)
        newvals == IF first6 = LEDGER_HEADERS THEN vals
                   ELSE IF vals = <<>> THEN <<LEDGER_HEADERS>>
                   ELSE [vals EXCEPT ![1] = LEDGER_HEADERS \o SubSeq(existing, 7, Len(existing))]
    IN  [exists |-> TRUE, formatted |-> tab.formatted \/ created, vals |-> newvals]

\* The row _append_and_sort_submission_log_row appends for the current record.
UnknownDivision == <<"U","n","k","n","o","w","n","D","i","v","i","s","i","o","n">>

\* division_tab = (sub.division or "").strip() or "UnknownDivision"
division_tab(division) == IF Strip(division) = <<>> THEN UnknownDivision ELSE Strip(division)

LedgerRow ==
    LET r == normalize_row(CurRow)
    IN  <<r[ColTIMESTAMP], cur.title, Strip(division_tab(r[7])), Strip(r[ColROUTINE_NAME]),
          Strip(r[9]), IntToStr(cur.version)>>

\* The calls of the try block of lines 276-302 that may raise, in order:
\* find_or_create_spreadsheet (or open_by_key), add_worksheet,
\* apply_sheet_formatting, the header update, append_row, get_all_values,
\* batch_clear and the update of the sorted rows.
LogFailures == {"find", "add", "format", "headers", "append", "read", "clear", "update"}

\* existing[: len(headers)] != headers for the tab's first row.
HeaderNeedsUpdate(tab) == ensure_division_tab_and_headers(tab).vals # tab.vals

\* The calls the block makes for this tab and row: a tab that exists is
\* neither added nor formatted, a header that is right is not written, and
\* the resort stops after the read when the tab holds no row but the one
\* appended.
LogCalls(tab, row) ==
    {"find", "append", "read"}
        \cup (IF tab.exists THEN {} ELSE {"add", "format"})
        \cup (IF ~tab.exists \/ HeaderNeedsUpdate(tab) THEN {"headers"} ELSE {})
        \cup (IF Len(ensure_division_tab_and_headers(tab).vals) >= 2 THEN {"clear", "update"} ELSE {})

\* The try block of lines 276-302: find_or_create_spreadsheet, ensure the tab,
\* append and resort; failAt names the call that raises ("none": no call).
\* Returns the tab after the block: a tab add_worksheet created stays when
\* the formatting or the header update raises.
log_submission(tab, row, failAt) ==
    IF failAt \in {"find", "add"} THEN tab
    ELSE IF failAt = "format" THEN [exists |-> TRUE, formatted |-> FALSE, vals |-> <<>>]
    ELSE IF failAt = "headers"
    THEN (IF tab.exists THEN tab ELSE [exists |-> TRUE, formatted |-> TRUE, vals |-> <<>>])
    ELSE LET t == ensure_division_tab_and_headers(tab)
         IN  IF failAt = "append" THEN t
             ELSE [t EXCEPT !.vals = append_and_sort_submission_log_row(t.vals, row, failAt)]

\* Mutant: a failure of the ledger update ends the record's pipeline.
AfterLog_haltsOnFailure(failAt) ==
    IF failAt = "none" THEN NextStep("log") ELSE AfterRaise("log")

\* Logging is best-effort: whatever raises inside it, the pipeline goes on.
AfterLog(failAt) == NextStep("log")

Log ==
    /\ pc = "log"
    /\ \/ /\ ledger' = log_submission(ledger, LedgerRow, "none")
          /\ stats' = [stats EXCEPT ![cur.idx - 1].appends = @ + 1]
          /\ pc' = AfterLog("none")
          /\ calls' = Append(calls, Ev("log", TRUE))
          /\ NoFault
       \/ /\ InjectFault
          /\ \E failAt \in LogCalls(ledger, LedgerRow) :
               /\ ledger' = log_submission(ledger, LedgerRow, failAt)
               /\ stats' = [stats EXCEPT ![cur.idx - 1].appends =
                               @ + (IF failAt \in {"read", "clear", "update"} THEN 1 ELSE 0)]
               /\ pc' = AfterLog(failAt)
          /\ calls' = Append(calls, Ev("log", FALSE))
    /\ UNCHANGED <<perms, sheet, values, queue, cur, srcState, destFiles, runs, res_in, res_out>>

\* drive.delete_file_with_fallback(file_id, fallback_remove_parent_id=submissions_folder_id)
\* The backend answers as the account's capabilities say and no call fails.
NominalEnv(e) ==
    /\ e.capsOk /\ e.ensureOk /\ e.parentsOk /\ e.moveOk
    /\ e.deleteOk = e.canDelete
    /\ e.trashOk = e.canTrash

Delete ==
    /\ pc = "delete"
    /\ \E e \in DeleteEnvs :
         LET n == FileIndex(cur.file_id)
             r == delete_drive_file(srcState[n], TRUE, e)
         IN  /\ e.canDelete = perms.canDelete
             /\ e.canTrash = perms.canTrash
             /\ IF NominalEnv(e) THEN NoFault ELSE InjectFault
             /\ srcState' = [srcState EXCEPT ![n] = r.file]
             /\ \/ /\ DeleteSucceeded(r.outcome)
                   /\ pc' = NextStep("delete")
                   /\ calls' = Append(calls, Ev("delete", TRUE))
                \/ /\ ~DeleteSucceeded(r.outcome)
                   /\ Raise("delete")
    /\ UNCHANGED <<perms, sheet, values, queue, cur, destFiles, ledger, runs, stats,
                   res_in, res_out>>

\* Mutant: the write lands one column to the left (a 0-based column).
update_cell_zeroBasedColumn(sh, row, col, value) ==
    [sh EXCEPT ![row] = [PadRow(@, col) EXCEPT ![col - 1] = value]]

\* Worksheet.update_cell(row, col, value): the sheet after the write.
update_cell(sh, row, col, value) ==
    [sh EXCEPT ![row] = [PadRow(@, col) EXCEPT ![col] = value]]

\* sheet.update_cell(row_num, processed_col, "X")
Commit ==
    /\ pc = "commit"
    /\ \/ /\ sheet' = update_cell(sheet, cur.idx, PROCESSED_INDEX, <<"X">>)
          /\ stats' = [stats EXCEPT ![cur.idx - 1].commits = @ + 1]
          /\ pc' = NextStep("commit")
          /\ calls' = Append(calls, Ev("commit", TRUE))
          /\ NoFault
       \/ /\ InjectFault
          /\ Raise("commit")
          /\ UNCHANGED <<sheet, stats>>
    /\ UNCHANGED <<perms, values, queue, cur, srcState, destFiles, ledger, runs, res_in, res_out>>

\* write_submitted_music_snapshot(g=g, submitted_music_id=submission_sheet_id):
\* the spreadsheet the snapshot is read from is the one process_submission_sheet
\* was given as the intake sheet; no find_or_create_spreadsheet call precedes it.
snapshot_spreadsheet == "submission_sheet"

\* g.gspread.open_by_key(...) or ss.worksheets() raises inside
\* write_submitted_music_snapshot, which is called outside any try: the
\* exception leaves process_submission_sheet and no snapshot is written.
on_snapshot_error == "snapshot_error"

\* The loop is exhausted: write_submitted_music_snapshot, then return; res_out
\* records the spreadsheet the snapshot was read from.
Finish ==
    /\ pc = "loop"
    /\ queue = <<>>
    /\ cur' = NoCur
    /\ \/ /\ NoFault
          /\ pc' = "done"
          /\ calls' = Append(calls, [op |-> "snapshot", row |-> 0, ok |-> TRUE])
          /\ res_out' = [snapshot_of |-> snapshot_spreadsheet]
       \/ /\ InjectFault
          /\ pc' = on_snapshot_error
          /\ UNCHANGED <<calls, res_out>>
    /\ UNCHANGED <<perms, sheet, values, queue, srcState, destFiles, ledger, runs,
                   stats, res_in>>

\* The process dies between two calls of a run; inside the log block it
\* leaves the tab as the calls made so far left it.
Crash ==
    /\ pc \notin Idle
    /\ InjectFault
    /\ pc' = "crashed"
    /\ queue' = <<>>
    /\ \/ UNCHANGED <<ledger, stats>>
       \/ /\ pc = "log"
          /\ \E before \in LogCalls(ledger, LedgerRow) \ {"find"} :
               /\ ledger' = log_submission(ledger, LedgerRow, before)
               /\ stats' = [stats EXCEPT ![cur.idx - 1].appends =
                               @ + (IF before \in {"read", "clear", "update"} THEN 1 ELSE 0)]
    /\ UNCHANGED <<perms, sheet, values, cur, srcState, destFiles, calls, runs,
                   res_in, res_out>>

Next ==
    \/ StartRun
    \/ NextRow
    \/ Prepare
    \/ EnsureFolder
    \/ Download
    \/ Resolve
    \/ Upload
    \/ Log
    \/ Delete
    \/ Commit
    \/ Finish
    \/ Crash

Spec == Init /\ [][Next]_vars

----------------------------------------------------------------------------
(* Properties of the pipeline.                                              *)

DataRows == 1..NumRows

\* The processed cell of data row n (sheet row n + 1) in sheet values sh.
ProcessedCellOf(sh, n) == PadRow(sh[n + 1], PROCESSED_INDEX)[PROCESSED_INDEX]

\* The processed cell of data row n was changed since the running (or last)
\* run read the sheet.
Written(n) == values # <<>> /\ ProcessedCellOf(sheet, n) # ProcessedCellOf(values, n)

\* Position in calls of the event (op, sheet row, ok), 0 when there is none.
Pos(op, row, ok) ==
    LET hits == {i \in 1..Len(calls) : calls[i] = [op |-> op, row |-> row, ok |-> ok]}
    IN  IF hits = {} THEN 0 ELSE CHOOSE i \in hits : \A j \in hits : i <= j

Happened(op, row, ok) == Pos(op, row, ok) # 0

\* A step of sheet row `row` raised out of the loop body in this run.
Raised(row) ==
    \E i \in 1..Len(calls) : calls[i].row = row /\ ~calls[i].ok /\ calls[i].op # "log"

InIntake(f) == f.exists /\ ~f.trashed /\ "intake" \in f.parents

HasSourceId(n) ==
    extract_drive_file_id(Strip(PadRow(sheet[n + 1], PROCESSED_INDEX)[ColAUDIO_FILE_URL])) # <<>>

HasValidTimestamp(n) == strptime(Strip(sheet[n + 1][ColTIMESTAMP])).ok

IsMarked(n) == IsProcessedCell(ProcessedCellOf(sheet, n))

\* C1: the processed cell of a row is written in a run only after download,
\* version resolution, upload and cleanup succeeded, in that order, for that
\* row in that run; a row one of whose steps raised keeps its processed cell.
ThmC1_CommitOnlyAfterFullPipeline ==
    \A n \in DataRows :
        /\ Written(n) =>
             /\ 0 < Pos("download", n + 1, TRUE)
             /\ Pos("download", n + 1, TRUE) < Pos("resolve", n + 1, TRUE)
             /\ Pos("resolve", n + 1, TRUE) < Pos("upload", n + 1, TRUE)
             /\ Pos("upload", n + 1, TRUE) < Pos("delete", n + 1, TRUE)
             /\ Pos("delete", n + 1, TRUE) < Pos("commit", n + 1, TRUE)
        /\ Raised(n + 1) => ~Written(n)

\* One row was marked and the cleanup of another row raised in the same run.
WitC1_CommitAndFailedCleanup ==
    \E n, m \in DataRows : Written(n) /\ Happened("delete", m + 1, FALSE)

\* C2 (state part): cleanup is invoked only after the row's upload returned,
\* the commit write only after the row's cleanup returned, and a row whose
\* upload raised sees neither cleanup nor commit in that run.
StateC2 ==
    /\ \A i \in 1..Len(calls) :
         /\ calls[i].op = "delete" =>
              /\ Happened("upload", calls[i].row, TRUE)
              /\ Pos("upload", calls[i].row, TRUE) < i
         /\ calls[i].op = "commit" =>
              /\ Happened("delete", calls[i].row, TRUE)
              /\ Pos("delete", calls[i].row, TRUE) < i
    /\ \A n \in DataRows :
         Happened("upload", n + 1, FALSE) =>
            /\ ~Written(n)
            /\ ~Happened("delete", n + 1, TRUE)
            /\ ~Happened("delete", n + 1, FALSE)
            /\ ~Happened("commit", n + 1, TRUE)

\* C2 (step part): an original changes state only in the cleanup step of its
\* own row after that row's upload succeeded, and a processed cell changes
\* only in the commit step of its own row after that row's cleanup succeeded.
StepC2 ==
    \A n \in DataRows :
        /\ srcState'[n] # srcState[n] =>
             /\ pc = "delete"
             /\ FileIndex(cur.file_id) = n
             /\ Happened("upload", cur.idx, TRUE)
             /\ ~Happened("upload", cur.idx, FALSE)
        /\ ProcessedCellOf(sheet', n) # ProcessedCellOf(sheet, n) =>
             /\ pc = "commit"
             /\ cur.idx = n + 1
             /\ Happened("delete", cur.idx, TRUE)
             /\ ~Happened("upload", cur.idx, FALSE)

\* C2: cleanup follows a successful upload, commit follows cleanup, and a
\* failed upload leaves the original and the processed cell untouched.
ThmC2_CleanupAfterUploadCommitAfterCleanup == []StateC2 /\ [][StepC2]_vars

\* A run ended in which a row's upload raised; its original is still in intake.
WitC2_UploadFailedSourceKept ==
    \E n \in DataRows :
        /\ pc = "done"
        /\ Happened("upload", n + 1, FALSE)
        /\ InIntake(srcState[n])
        /\ ~IsMarked(n)

\* C3: at every point of every run, crashes included, the original of an
\* identified record is still in the intake folder or an uploaded copy of it
\* is in the destination folder.
ThmC3_SourceOrCopyExists ==
    \A n \in DataRows :
        stats[n].identified =>
            \/ InIntake(srcState[n])
            \/ \E i \in 1..Len(destFiles) : destFiles[i].from = n

\* The process crashed after an original left the intake folder.
WitC3_CrashAfterCleanup ==
    \E n \in DataRows :
        pc = "crashed" /\ stats[n].identified /\ ~InIntake(srcState[n])

\* Two runs ended and no call of either run failed.
TwoRunsNoFailure == pc = "done" /\ runs = 2 /\ faults = 0

UploadedCopies(n) == Cardinality({i \in 1..Len(destFiles) : destFiles[i].from = n})

LedgerDataRows ==
    IF ~ledger.exists THEN 0
    ELSE Cardinality({i \in 2..Len(ledger.vals) : IsNonBlankRow(ledger.vals[i])})

\* The last run made no upload, no ledger append and no commit write.
RunWroteNothing ==
    \A i \in 1..Len(calls) : calls[i].op \notin {"upload", "log", "commit"}

ExactlyOnce(n) ==
    stats[n].commits = 1 /\ UploadedCopies(n) = 1 /\ stats[n].appends = 1

\* The row carried the done marker before the first run (marks are only ever
\* added by a commit write).
InitiallyMarked(n) == IsMarked(n) /\ stats[n].commits = 0

\* C4 as stated: after two runs without external failure every record with
\* an extractable source id has exactly one commit write, one uploaded file
\* and one ledger row, and the second run wrote nothing.
OrigC4_EveryRecordWithSourceIdOnce ==
    TwoRunsNoFailure =>
        /\ \A n \in DataRows : HasSourceId(n) => ExactlyOnce(n)
        /\ RunWroteNothing

\* C4 amended: after two runs without external failure every record that was
\* not marked before the first run and has an extractable source id and a
\* parseable timestamp has exactly one commit write, one uploaded file and
\* one ledger row; every other record has none; the second run wrote nothing.
ThmC4_EligibleRecordsExactlyOnce ==
    TwoRunsNoFailure =>
        /\ \A n \in DataRows :
             IF HasSourceId(n) /\ HasValidTimestamp(n) /\ ~InitiallyMarked(n)
             THEN ExactlyOnce(n) /\ IsMarked(n)
             ELSE stats[n].commits = 0 /\ UploadedCopies(n) = 0 /\ stats[n].appends = 0
        /\ LedgerDataRows =
             Cardinality({n \in DataRows :
                 HasSourceId(n) /\ HasValidTimestamp(n) /\ ~InitiallyMarked(n)})
        /\ Len(destFiles) = LedgerDataRows
        /\ RunWroteNothing

\* Two failure-free runs ended over a sheet with two eligible records.
WitC4_TwoRunsTwoRecords ==
    /\ TwoRunsNoFailure
    /\ \A n \in DataRows : stats[n].commits = 1
    /\ LedgerDataRows = NumRows

\* C5 as stated: a run in which the backend refuses no call and the process
\* does not crash ends with every record that
\* has a source id and a parseable timestamp committed, whatever failed or
\* crashed in earlier runs.
CexC5_CleanRunCommitsEveryRecord ==
    (pc = "done" /\ clean) =>
        \A n \in DataRows : (HasSourceId(n) /\ HasValidTimestamp(n)) => IsMarked(n)

----------------------------------------------------------------------------
(* The row scanner on its own: one call of _iter_unprocessed_rows, run to   *)
(* exhaustion, over every sheet of a bounded family.                        *)

MaxScanRows == 2   \* data rows of a scanned sheet

\* Contents of a processed cell.
ScanCells ==
    {<<>>, <<"X">>, <<"x">>, <<" ", "X", " ">>, <<"x", " ">>, <<"Y">>, <<"X", "X">>,
     <<" ">>, <<"X", " ", "X">>, <<"\n", "x", "\r">>}

\* Rows as get_all_values returns them: full width with some processed cell,
\* or shorter than the processed column.
ScanRows ==
    {[i \in 1..PROCESSED_INDEX |-> IF i = PROCESSED_INDEX THEN c ELSE <<"a">>] : c \in ScanCells}
    \cup {<<>>, [i \in 1..INPUT_FORM_COL_COUNT |-> <<"a">>]}

ScanHeaders ==
    {[i \in 1..PROCESSED_INDEX |-> <<"H">>], [i \in 1..INPUT_FORM_COL_COUNT |-> <<"H">>]}

ScanSheets ==
    {<<>>} \cup
    UNION {{<<h>> \o rows : h \in ScanHeaders, rows \in [1..n -> ScanRows]} : n \in 0..MaxScanRows}

InitScan ==
    /\ sheet \in ScanSheets
    /\ pc = "scan"
    /\ values = <<>>
    /\ res_in = <<>>
    /\ res_out = <<>>
    /\ queue = <<>>
    /\ cur = NoCur
    /\ srcState = <<>>
    /\ perms = [canDelete |-> FALSE, canTrash |-> FALSE]
    /\ destFiles = <<>>
    /\ ledger = NoTab
    /\ calls = <<>>
    /\ runs = 0
    /\ faults = 0
    /\ clean = TRUE
    /\ stats = <<>>

\* list(_iter_unprocessed_rows(sheet, PROCESSED_INDEX)): values is the result
\* of get_all_values, res_out the pairs yielded.
ScanSheet ==
    /\ pc = "scan"
    /\ values' = sheet
    /\ res_out' = iter_unprocessed_rows(sheet, PROCESSED_INDEX)
    /\ pc' = "scanned"
    /\ UNCHANGED <<sheet, queue, cur, srcState, perms, destFiles, ledger, calls, runs,
                   faults, clean, stats, res_in>>

NextScan == ScanSheet

SpecScan == InitScan /\ [][NextScan]_vars

\* The text of a row's processed cell ("" when the row is too short).
ProcessedText(row) == IF Len(row) >= PROCESSED_INDEX THEN row[PROCESSED_INDEX] ELSE <<>>

\* The cell is the done marker: one letter x, upper or lower case, with
\* nothing but white space around it.
IsDoneMarker(cell) ==
    \E i \in 1..Len(cell) :
        /\ cell[i] \in {"x", "X"}
        /\ \A j \in 1..Len(cell) : j # i => IsSpace(cell[j])

\* C6: the scanner yields, in sheet order, exactly the data rows whose
\* processed cell, trimmed and upper-cased, is not "X"; it never yields the
\* header row, and a sheet with only a header (or nothing) yields nothing.
ThmC6_ScannerYieldsExactlyUnprocessedRows ==
    pc = "scanned" =>
        /\ \A j \in 1..Len(res_out) :
             /\ res_out[j].idx \in 2..Len(sheet)
             /\ Len(res_out[j].row) >= PROCESSED_INDEX
             /\ SubSeq(res_out[j].row, 1, Len(sheet[res_out[j].idx])) = sheet[res_out[j].idx]
             /\ \A k \in (Len(sheet[res_out[j].idx]) + 1)..Len(res_out[j].row) :
                    res_out[j].row[k] = <<>>
        /\ \A j \in 1..(Len(res_out) - 1) : res_out[j].idx < res_out[j + 1].idx
        /\ \A i \in 2..Len(sheet) :
             (\E j \in 1..Len(res_out) : res_out[j].idx = i) <=> ~IsDoneMarker(ProcessedText(sheet[i]))
        /\ Len(sheet) <= 1 => res_out = <<>>

\* A sheet whose first data row carries a lower-case marker with a trailing
\* blank and whose second data row is short: only the second is yielded.
WitC6_MarkedRowSkippedShortRowYielded ==
    /\ pc = "scanned"
    /\ Len(sheet) = 3
    /\ ProcessedText(sheet[2]) = <<"x", " ">>
    /\ sheet[3] = <<>>
    /\ Len(res_out) = 1
    /\ res_out[1].idx = 3

----------------------------------------------------------------------------
(* The version resolver on its own: resolve_versioned_filename followed by  *)
(* upload_new_file, for a queue of desired names, over a bounded family of  *)
(* destination folders.                                                     *)

MaxFolderLen == 2   \* files of a small destination folder
MaxUploads == 2     \* desired names resolved and uploaded in one behaviour

\* File names a small folder is drawn from: the key "K" with extension ".m"
\* in two spellings, another extension, and two other keys.
NamePool ==
    {<<"K", "_", "v", "1", ".", "m">>,
     <<"k", "_", "V", "2", ".", "M">>,
     <<"K", "_", "v", "1", ".", "w">>,
     <<"K", "B", "_", "v", "1", ".", "m">>,
     <<"K", "_", "v", "o", "_", "v", "1", ".", "m">>}

DesiredNames ==
    {<<"K", "_", "v", "1", ".", "m">>,
     <<"K", "_", "v", "2", ".", "m">>,
     <<"K", "_", "v", "o", "_", "v", "1", ".", "m">>,
     <<"K", ".", "m">>,
     <<"K", "_", "v", ".", "m">>,
     <<"K", "_", "V", "1", ".", "m">>}

\* A folder not written by the pipeline: from = 0.
SmallFolders ==
    UNION {{[i \in 1..n |-> [name |-> f[i], from |-> 0]] :
               f \in {g \in [1..n -> NamePool] : \A i, j \in 1..n : i # j => g[i] # g[j]}} :
           n \in 0..MaxFolderLen}

\* The folder after n pipeline uploads of one key, versions 1..n, oldest
\* first; every one of them was resolved from a listing of a single page.
UploadedFolder(n) ==
    [i \in 1..n |-> [name |-> <<"K", "_", "v">> \o IntToStr(i) \o <<".", "m">>, from |-> 1]]

BigFolders == {UploadedFolder(pageSize), UploadedFolder(pageSize + 1)}

InitResolve ==
    /\ destFiles \in SmallFolders \cup BigFolders
    /\ queue \in UNION {[1..n -> DesiredNames] : n \in 1..MaxUploads}
    /\ pc = "resolve"
    /\ res_in = <<>>
    /\ res_out = <<>>
    /\ sheet = <<>>
    /\ values = <<>>
    /\ cur = NoCur
    /\ srcState = <<>>
    /\ perms = [canDelete |-> FALSE, canTrash |-> FALSE]
    /\ ledger = NoTab
    /\ calls = <<>>
    /\ runs = 0
    /\ faults = 0
    /\ clean = TRUE
    /\ stats = <<>>

\* Mutant: the list call is issued before the desired name is validated.
ResolveCall_listsBeforeValidating ==
    /\ pc = "resolve"
    /\ queue # <<>>
    /\ LET desired == Head(queue)
       IN  IF ~DesiredIsValid(desired)
           THEN /\ pc' = "value_error"
                /\ res_in' = [desired |-> desired, folder |-> DestNames, page |-> <<>>,
                              lists |-> 1]
                /\ res_out' = <<>>
           ELSE \E page \in FirstPages(DestNames, QueryNeedle(desired)) :
                /\ res_in' = [desired |-> desired, folder |-> DestNames, page |-> page,
                              lists |-> 1]
                /\ res_out' = resolve_versioned_filename(page, desired)
                /\ pc' = "upload"
    /\ UNCHANGED <<sheet, values, queue, cur, srcState, perms, destFiles, ledger, calls,
                   runs, faults, clean, stats>>

\* resolve_versioned_filename(drive, parent_folder_id, desired_filename):
\* ValueError on a name without _vN, else one list call and the result.
\* res_in records the call: the desired name, the folder's names, the page
\* the list call returned and the number of list calls issued.
ResolveCall ==
    /\ pc = "resolve"
    /\ queue # <<>>
    /\ LET desired == Head(queue)
       IN  IF ~DesiredIsValid(desired)
           THEN /\ pc' = "value_error"
                /\ res_in' = [desired |-> desired, folder |-> DestNames, page |-> <<>>,
                              lists |-> 0]
                /\ res_out' = <<>>
           ELSE \E page \in FirstPages(DestNames, QueryNeedle(desired)) :
                /\ res_in' = [desired |-> desired, folder |-> DestNames, page |-> page,
                              lists |-> 1]
                /\ res_out' = resolve_versioned_filename(page, desired)
                /\ pc' = "upload"
    /\ UNCHANGED <<sheet, values, queue, cur, srcState, perms, destFiles, ledger, calls,
                   runs, faults, clean, stats>>

\* upload_new_file(drive, parent_folder_id, filename=final_filename, ...)
UploadCall ==
    /\ pc = "upload"
    /\ destFiles' = Append(destFiles, [name |-> res_out.name, from |-> 2])
    /\ queue' = Tail(queue)
    /\ pc' = "resolve"
    /\ UNCHANGED <<sheet, values, cur, srcState, perms, ledger, calls, runs, faults,
                   clean, stats, res_in, res_out>>

NextResolve == ResolveCall \/ UploadCall

SpecResolve == InitResolve /\ [][NextResolve]_vars

\* The naming key (text before _v<N>), the extension and the version of a
\* versioned file name, key and extension in lower case.
KeyExtVersion(name) ==
    LET sp == SplitExt(Lower(name))
        at == VersionMatchStart(sp.base)
    IN  [key |-> SubSeq(sp.base, 1, at - 1), ext |-> sp.ext, version |-> VersionOf(sp.base)]

IsVersioned(name) == VersionMatchStart(SplitExt(Lower(name)).base) # 0

\* The versions carried by the names of the folder that have the naming key
\* and the extension of the desired name, compared without regard to case.
VersionsOfSameKey(folder, desired) ==
    {KeyExtVersion(folder[i]).version :
        i \in {j \in 1..Len(folder) :
                 /\ IsVersioned(folder[j])
                 /\ KeyExtVersion(folder[j]).key = KeyExtVersion(desired).key
                 /\ KeyExtVersion(folder[j]).ext = KeyExtVersion(desired).ext}}

SmallestPositiveNotIn(used) ==
    LET free == {k \in 1..(Cardinality(used) + 1) : k \notin used}
    IN  CHOOSE k \in free : \A j \in free : k <= j

\* C7 as stated: the resolver returns key_v<k>.ext with k the smallest
\* positive integer that no existing name of the same key and extension
\* carries as its version; version 1 when there is no such name.
CexC7_ResolvesSmallestUnusedVersion ==
    res_out # <<>> =>
        LET sp == SplitExt(res_in.desired)
            key == SubSeq(sp.base, 1, VersionMatchStart(sp.base) - 1)
            k == SmallestPositiveNotIn(VersionsOfSameKey(res_in.folder, res_in.desired))
        IN  /\ res_out.version = k
            /\ res_out.name = key \o <<"_", "v">> \o IntToStr(k) \o sp.ext

\* C8 as stated: the files of one naming key and extension that the pipeline
\* uploaded into the initially empty destination folder carry exactly the
\* versions 1..N, N being their number.
CexC8_SameKeyVersionsAreOneToN ==
    \A j \in 1..Len(destFiles) :
        LET same == {i \in 1..Len(destFiles) :
                        /\ KeyExtVersion(destFiles[i].name).key = KeyExtVersion(destFiles[j].name).key
                        /\ KeyExtVersion(destFiles[i].name).ext = KeyExtVersion(destFiles[j].name).ext}
        IN  {KeyExtVersion(destFiles[i].name).version : i \in same} = 1..Cardinality(same)

\* C9 as stated: a file the pipeline uploads never gets the name, compared
\* without regard to case, of a file the pipeline uploaded into the folder
\* before it.
CexC9_UploadedNamesNeverReused ==
    \A j \in 1..Len(destFiles) :
        destFiles[j].from = 2 =>
            \A i \in 1..(j - 1) :
                destFiles[i].from # 0 => Lower(destFiles[i].name) # Lower(destFiles[j].name)

\* C10 as stated: the resolved version is never the version of a matching
\* name of the same key and extension that the list call left beyond the
\* page it returned.
CexC10_VersionsBeyondFirstPageCounted ==
    res_out # <<>> =>
        LET onPage == {res_in.page[i] : i \in 1..Len(res_in.page)}
            beyond == {i \in 1..Len(res_in.folder) :
                          /\ NameContains(res_in.folder[i], QueryNeedle(res_in.desired))
                          /\ res_in.folder[i] \notin onPage}
        IN  \A i \in beyond :
                ~ /\ IsVersioned(res_in.folder[i])
                  /\ KeyExtVersion(res_in.folder[i]).key = KeyExtVersion(res_in.desired).key
                  /\ KeyExtVersion(res_in.folder[i]).ext = KeyExtVersion(res_in.desired).ext
                  /\ KeyExtVersion(res_in.folder[i]).version = res_out.version

\* The stem of the name (the text before its last ".", the whole name when it
\* has none) ends in "_v" followed by one or more digits.
StemEndsInVersion(name) ==
    LET d == LastIndexOf(name, ".")
        stem == IF d = 0 THEN name ELSE SubSeq(name, 1, d - 1)
    IN  \E k \in 1..(Len(stem) - 2) :
            /\ stem[k] = "_"
            /\ stem[k + 1] = "v"
            /\ \A j \in (k + 2)..Len(stem) : stem[j] \in DigitSet

\* C11: a resolver call with a desired name whose stem does not end in
\* _v<digits> fails with the validation error, returns no name and has issued
\* no list call.
ThmC11_InvalidDesiredNameRejectedBeforeListing ==
    (res_in # <<>> /\ ~StemEndsInVersion(res_in.desired)) =>
        /\ pc = "value_error"
        /\ res_out = <<>>
        /\ res_in.lists = 0

\* The resolver rejected "K_V1.m" (capital V) for a folder that holds files.
WitC11_CapitalVRejected ==
    /\ pc = "value_error"
    /\ res_in # <<>>
    /\ res_in.desired = <<"K", "_", "V", "1", ".", "m">>
    /\ Len(res_in.folder) > 0
    /\ res_out = <<>>

----------------------------------------------------------------------------
(* The naming functions on their own: _parse_routine_season_year and        *)
(* build_base_filename applied to two records that carry the same           *)
(* identifying fields.                                                      *)

TwoDigits(n) == IF n < 10 THEN <<"0">> \o IntToStr(n) ELSE IntToStr(n)

StampStyles == {"plain", "padded", "spaced", "tabbed"}

\* The text of a form timestamp for the given month, day and year.
TimestampText(mo, dy, yr, style) ==
    IF style = "padded"
    THEN TwoDigits(mo) \o <<"/">> \o TwoDigits(dy) \o <<"/">> \o IntToStr(yr)
         \o <<" ", "2", "0", ":", "0", "0", ":", "0", "0">>
    ELSE IF style = "tabbed"
    THEN IntToStr(mo) \o <<"/">> \o IntToStr(dy) \o <<"/">> \o IntToStr(yr)
         \o <<"\t", " ", "9", ":", "0", "5", ":", "7", "\n">>
    ELSE LET t == IntToStr(mo) \o <<"/">> \o IntToStr(dy) \o <<"/">> \o IntToStr(yr)
                  \o <<" ", "2", "3", ":", "1", "6", ":", "4", "0">>
         IN  IF style = "spaced" THEN <<" ">> \o t \o <<" ", " ">> ELSE t

Stamp(mo, dy, yr, style) ==
    [text |-> TimestampText(mo, dy, yr, style), valid |-> TRUE, year |-> yr, month |-> mo]

ValidStamps == {Stamp(mo, 19, yr, st) : mo \in 1..12, yr \in {2025, 2026}, st \in StampStyles}

\* Texts datetime.strptime refuses for the format "%m/%d/%Y %H:%M:%S".
InvalidStampTexts ==
    {<<"b", "a", "d">>,
     <<>>,
     <<"1", "3", "/", "1", "/", "2", "0", "2", "5", " ", "2", "3", ":", "1", "6", ":", "4", "0">>,
     <<"2", "/", "3", "0", "/", "2", "0", "2", "5", " ", "2", "3", ":", "1", "6", ":", "4", "0">>,
     <<"2", "0", "2", "5", "-", "1", "1", "-", "1", "9", " ", "2", "3", ":", "1", "6", ":", "4", "0">>,
     <<"1", "1", "/", "1", "9", "/", "2", "5", " ", "2", "3", ":", "1", "6", ":", "4", "0">>,
     <<"1", "1", "/", "1", "9", "/", "2", "0", "2", "5", " ", "2", "4", ":", "0", "0", ":", "0", "0">>,
     <<"1", "1", "/", "1", "9", "/", "2", "0", "2", "5">>}

InvalidStamps == {[text |-> t, valid |-> FALSE, year |-> 0, month |-> 0] : t \in InvalidStampTexts}

SecondStamps ==
    {Stamp(11, 19, 2025, "plain"), Stamp(1, 19, 2026, "padded"), Stamp(5, 19, 2025, "plain"),
     Stamp(12, 19, 2025, "spaced"), Stamp(10, 19, 2026, "plain")}

\* Identifying fields after sanitising (no underscore is left in a field).
NamingFields ==
    [leader : {<<"A", "l", "L">>},
     follower : {<<"B", "F">>},
     division : {<<"N">>, <<"N", "o", "v", "i", "c", "e">>},
     routine : {<<>>, <<"V", "o">>},
     descriptor : {<<>>, <<"S", "p", "a", "r", "k", "l", "y", "S", "h", "o", "e", "s">>}]

InitNaming ==
    /\ \E f \in NamingFields, a \in ValidStamps \cup InvalidStamps, b \in SecondStamps :
          queue = <<[stamp |-> a, fields |-> f], [stamp |-> b, fields |-> f]>>
    /\ pc = "season"
    /\ res_in = <<>>
    /\ res_out = <<>>
    /\ sheet = <<>>
    /\ values = <<>>
    /\ cur = NoCur
    /\ srcState = <<>>
    /\ perms = [canDelete |-> FALSE, canTrash |-> FALSE]
    /\ destFiles = <<>>
    /\ ledger = NoTab
    /\ calls = <<>>
    /\ runs = 0
    /\ faults = 0
    /\ clean = TRUE
    /\ stats = <<>>

\* _parse_routine_season_year(timestamp) for the record at the head of the
\* queue: the season, or the ValueError of strptime (raised = TRUE).
ParseSeason ==
    /\ pc = "season"
    /\ queue # <<>>
    /\ res_in' = Head(queue)
    /\ LET ts == Head(queue).stamp.text
       IN  res_out' = Append(res_out,
              IF strptime(ts).ok
              THEN [rec |-> Head(queue), raised |-> FALSE,
                    season |-> parse_routine_season_year(ts), built |-> FALSE, base |-> <<>>]
              ELSE [rec |-> Head(queue), raised |-> TRUE,
                    season |-> <<>>, built |-> FALSE, base |-> <<>>])
    /\ pc' = "name"
    /\ UNCHANGED <<sheet, values, queue, cur, srcState, perms, destFiles, ledger, calls,
                   runs, faults, clean, stats>>

\* build_base_filename(timestamp, leader, follower, division, routine,
\* descriptor) for the same record; it raises as strptime does.
BuildBaseFilename ==
    /\ pc = "name"
    /\ LET f == res_in.fields
           ts == res_in.stamp.text
           n == Len(res_out)
       IN  res_out' =
              IF strptime(ts).ok
              THEN [res_out EXCEPT ![n].built = TRUE,
                                   ![n].base = build_base_filename(ts, f.leader, f.follower,
                                                  f.division, f.routine, f.descriptor).base]
              ELSE res_out
    /\ queue' = Tail(queue)
    /\ pc' = "season"
    /\ UNCHANGED <<sheet, values, cur, srcState, perms, destFiles, ledger, calls, runs,
                   faults, clean, stats, res_in>>

NextNaming == ParseSeason \/ BuildBaseFilename

SpecNaming == InitNaming /\ [][NextNaming]_vars

\* The season of a month and a year: the year for January to October, the
\* next year for November and December.
SeasonOf(stamp) == IntToStr(IF stamp.month <= 10 THEN stamp.year ELSE stamp.year + 1)

\* C12: a valid timestamp yields the calendar year for months 1..10 and the
\* calendar year plus one for months 11 and 12; a timestamp that does not
\* parse raises and yields no season.
ThmC12_SeasonRollsOverInNovember ==
    \A i \in 1..Len(res_out) :
        IF res_out[i].rec.stamp.valid
        THEN ~res_out[i].raised /\ res_out[i].season = SeasonOf(res_out[i].rec.stamp)
        ELSE res_out[i].raised /\ res_out[i].season = <<>>

\* "11/19/2025 23:16:40" gave season 2026, and the first record's timestamp
\* "2/30/2025 23:16:40" raised.
WitC12_NovemberRolledInvalidRaised ==
    /\ Len(res_out) = 2
    /\ res_out[1].rec.stamp.text = <<"2", "/", "3", "0", "/", "2", "0", "2", "5", " ", "2", "3", ":", "1", "6", ":", "4", "0">>
    /\ res_out[1].raised
    /\ res_out[2].rec.stamp.text = <<"1", "1", "/", "1", "9", "/", "2", "0", "2", "5", " ", "2", "3", ":", "1", "6", ":", "4", "0">>
    /\ res_out[2].season = <<"2", "0", "2", "6">>

\* The parts in order of the key of a record: leader, follower, division,
\* season, then the routine and the descriptor that are not empty.
ExpectedParts(rec) ==
    <<rec.fields.leader, rec.fields.follower, rec.fields.division, SeasonOf(rec.stamp)>>
    \o (IF rec.fields.routine = <<>> THEN <<>> ELSE <<rec.fields.routine>>)
    \o (IF rec.fields.descriptor = <<>> THEN <<>> ELSE <<rec.fields.descriptor>>)

\* C13: the key is leader_follower_division, the season, the routine if it
\* is not empty and the descriptor if it is not empty, in that order, joined
\* by underscores; records with the same fields and the same season get the
\* same key.
ThmC13_BaseFilenameFixedOrder ==
    /\ \A i \in 1..Len(res_out) :
          res_out[i].built => SplitOn(res_out[i].base, "_") = ExpectedParts(res_out[i].rec)
    /\ \A i, j \in 1..Len(res_out) :
          (/\ res_out[i].built /\ res_out[j].built
           /\ res_out[i].rec.fields = res_out[j].rec.fields
           /\ SeasonOf(res_out[i].rec.stamp) = SeasonOf(res_out[j].rec.stamp))
          => res_out[i].base = res_out[j].base

\* Two records with the same fields, an empty routine and a descriptor, one
\* of December 2025 and one of January 2026, got the same key.
WitC13_SameSeasonSameKey ==
    /\ Len(res_out) = 2
    /\ res_out[1].built /\ res_out[2].built
    /\ res_out[1].rec.stamp.month = 12 /\ res_out[1].rec.stamp.year = 2025
    /\ res_out[2].rec.stamp.month = 1 /\ res_out[2].rec.stamp.year = 2026
    /\ res_out[1].rec.fields.routine = <<>>
    /\ res_out[1].rec.fields.descriptor # <<>>
    /\ res_out[1].base = res_out[2].base
    /\ res_out[1].base = <<"A", "l", "L", "_", "B", "F", "_", "N", "_", "2", "0", "2", "6", "_", "S", "p", "a", "r", "k", "l", "y", "S", "h", "o", "e", "s">>

----------------------------------------------------------------------------
(* The submission log writer on its own: _ensure_division_tab_and_headers   *)
(* and _append_and_sort_submission_log_row over a bounded family of tabs.   *)

MaxTabRows == 3   \* rows below the header of a tab before the first append
MaxAppends == 1   \* rows appended in one behaviour

RowZed1 == <<<<"t">>, <<"Z", "e", "d", " ", "&", " ", "Z">>, <<"D">>, <<"R">>, <<"X">>, <<"1">>>>
RowAlice3 == <<<<"t">>, <<"A", "l", "i", "c", "e", " ", "&", " ", "A">>, <<"D">>, <<"R">>, <<"X">>, <<"3">>>>
RowAlice1 == <<<<"t">>, <<"A", "l", "i", "c", "e", " ", "&", " ", "A">>, <<"D">>, <<"R">>, <<"X">>, <<"1">>>>
RowBob2 == <<<<"t">>, <<"B", "o", "b", " ", "&", " ", "B">>, <<"D">>, <<"R">>, <<"X">>, <<"2">>>>
RowAliceLower2 == <<<<"t">>, <<"a", "l", "i", "c", "e", " ", "&", " ", "a">>, <<"D">>, <<"R">>, <<"X">>, <<"2">>>>

\* Rows a tab may hold below its header: log rows and a blank row.
TabRowPool == {RowZed1, RowAlice3, RowAlice1, RowAliceLower2, BlankRow}

AppendRowPool == {RowBob2, RowAliceLower2, RowZed1}

\* First rows of a tab that are not the fixed header: other titles, too few
\* cells, a seventh cell after the fixed six.
OddHeaders ==
    {[i \in 1..6 |-> <<"H">>],
     <<LEDGER_HEADERS[1], LEDGER_HEADERS[2]>>,
     [i \in 1..7 |-> IF i = 7 THEN <<"N", "o", "t", "e">> ELSE <<"h">>]}

\* Existing tabs whose first row is missing or is not the fixed header, made
\* by hand (not formatted) or by an earlier call (formatted).
OddTabs ==
    {[exists |-> TRUE, formatted |-> f, vals |-> v] :
        f \in BOOLEAN,
        v \in {<<>>} \cup {<<h>> : h \in OddHeaders} \cup {<<h, RowZed1>> : h \in OddHeaders}}

LedgerTabs ==
    {NoTab} \cup OddTabs \cup
    UNION {{[exists |-> TRUE, formatted |-> f, vals |-> <<LEDGER_HEADERS>> \o rows] :
               rows \in [1..n -> TabRowPool], f \in BOOLEAN} : n \in 0..MaxTabRows}

InitLedger ==
    /\ ledger \in LedgerTabs
    /\ queue \in UNION {[1..n -> AppendRowPool] : n \in 1..MaxAppends}
    /\ pc = "ensure_tab"
    /\ res_in = <<>>
    /\ res_out = <<>>
    /\ sheet = <<>>
    /\ values = <<>>
    /\ cur = NoCur
    /\ srcState = <<>>
    /\ perms = [canDelete |-> FALSE, canTrash |-> FALSE]
    /\ destFiles = <<>>
    /\ calls = <<>>
    /\ runs = 0
    /\ faults = 0
    /\ clean = TRUE
    /\ stats = <<>>

\* ws = _ensure_division_tab_and_headers(g, submitted_music_id, division)
EnsureTab ==
    /\ pc = "ensure_tab"
    /\ queue # <<>>
    /\ ledger' = ensure_division_tab_and_headers(ledger)
    /\ pc' = "append"
    /\ UNCHANGED <<sheet, values, queue, cur, srcState, perms, destFiles, calls, runs,
                   faults, clean, stats, res_in, res_out>>

\* _append_and_sort_submission_log_row(ws, ...): res_in records the row, the
\* call of the resort step that raised and the tab before the call, res_out
\* the tab after it.
AppendAndSort ==
    /\ pc = "append"
    /\ \E failAt \in {"none", "read", "clear", "update"} :
          /\ res_in' = [row |-> Head(queue), failAt |-> failAt, before |-> ledger.vals]
          /\ res_out' = append_and_sort_submission_log_row(ledger.vals, Head(queue), failAt)
          /\ ledger' = [ledger EXCEPT !.vals =
                           append_and_sort_submission_log_row(ledger.vals, Head(queue), failAt)]
    /\ queue' = Tail(queue)
    /\ pc' = "ensure_tab"
    /\ UNCHANGED <<sheet, values, cur, srcState, perms, destFiles, calls, runs, faults,
                   clean, stats>>

NextLedger == EnsureTab \/ AppendAndSort

SpecLedger == InitLedger /\ [][NextLedger]_vars

\* The non-blank rows below the header.
DataRowsOf(vals) == SelectSeq(Tail(vals), IsNonBlankRow)

\* Row a may stand before row b: its partnership is smaller without regard
\* to case, or the partnerships are equal and its version is not smaller.
InLedgerOrder(a, b) ==
    LET pa == Casefold(Strip(a[2]))
        pb == Casefold(Strip(b[2]))
    IN  \/ StrLess(pa, pb)
        \/ pa = pb /\ version_num(a) >= version_num(b)

\* C14 as stated: after a call whose resort step did not fail, the data rows
\* of the tab are ordered by partnership ascending without regard to case
\* and, among equal partnerships, by version descending.
CexC14_TabSortedAfterAppend ==
    (res_in # <<>> /\ res_in.failAt = "none") =>
        \A i, j \in 1..Len(DataRowsOf(res_out)) :
            i < j => InLedgerOrder(DataRowsOf(res_out)[i], DataRowsOf(res_out)[j])

----------------------------------------------------------------------------
(* The deletion fallback on its own: one delete_drive_file call on the      *)
(* source of the record in sheet row 2, under every answer of the backend,  *)
(* followed by what the orchestrator does with its result.                  *)

\* Folders that may hold the source file before the call.
SourceParents == {{"intake"}, {"intake", "other"}, {"other"}}

InitDelete ==
    /\ \E ps \in SourceParents :
          srcState = <<[exists |-> TRUE, trashed |-> FALSE, parents |-> ps,
                        name |-> <<"s", ".", "m">>]>>
    /\ res_in \in [env : DeleteEnvs, hasFallback : BOOLEAN]
    /\ res_out = <<>>
    /\ sheet = <<HeaderRow, FormRow("plain", 1)>>
    /\ pc = "delete"
    /\ cur = [NoCur EXCEPT !.idx = 2, !.file_id = FileId(1)]
    /\ values = <<>>
    /\ queue = <<>>
    /\ perms = [canDelete |-> res_in.env.canDelete, canTrash |-> res_in.env.canTrash]
    /\ destFiles = <<>>
    /\ ledger = NoTab
    /\ calls = <<>>
    /\ runs = 0
    /\ faults = 0
    /\ clean = TRUE
    /\ stats = <<>>

\* delete_drive_file(drive, file_id, fallback_remove_parent_id=...): res_out is
\* the outcome, the calls issued and the file's state; an exception goes to
\* the except clause of the loop body, a normal return to the commit write.
DeleteCall ==
    /\ pc = "delete"
    /\ LET r == delete_drive_file(srcState[1], res_in.hasFallback, res_in.env)
       IN  /\ res_out' = r
           /\ srcState' = <<r.file>>
           /\ pc' = IF DeleteSucceeded(r.outcome) THEN NextStep("delete")
                    ELSE AfterRaise("delete")
    /\ UNCHANGED <<sheet, values, queue, cur, perms, destFiles, ledger, calls, runs,
                   faults, clean, stats, res_in>>

\* sheet.update_cell(row_num, processed_col, "X")
CommitCall ==
    /\ pc = "commit"
    /\ sheet' = update_cell(sheet, cur.idx, PROCESSED_INDEX, <<"X">>)
    /\ pc' = NextStep("commit")
    /\ UNCHANGED <<values, queue, cur, srcState, perms, destFiles, ledger, calls, runs,
                   faults, clean, stats, res_in, res_out>>

NextDelete == DeleteCall \/ CommitCall

SpecDelete == InitDelete /\ [][NextDelete]_vars

OpsOf(r) == {r.ops[i] : i \in 1..Len(r.ops)}

\* C15: when the backend reports canDelete = false and canTrash = false, no
\* hard delete and no trash call is issued; with a fallback folder the first
\* call issued belongs to the quarantine move, and when the move succeeds the
\* function returns normally with outcome Quarantined.
ThmC15_NoCapabilitiesGoesToQuarantine ==
    (/\ res_out # <<>>
     /\ res_in.env.capsOk /\ ~res_in.env.canDelete /\ ~res_in.env.canTrash) =>
        /\ "delete" \notin OpsOf(res_out)
        /\ "trash" \notin OpsOf(res_out)
        /\ res_in.hasFallback => res_out.ops[1] = "ensure_folder"
        /\ (res_in.hasFallback /\ res_in.env.ensureOk /\ res_in.env.moveOk) =>
              /\ res_out.outcome = "Quarantined"
              /\ "move" \in OpsOf(res_out)
              /\ "processed" \in res_out.file.parents

\* Both capabilities were reported false and the file was moved out of the
\* intake folder into the processed-originals folder.
WitC15_QuarantinedWithoutDeleteOrTrash ==
    /\ res_out # <<>>
    /\ res_in.env.capsOk /\ ~res_in.env.canDelete /\ ~res_in.env.canTrash
    /\ res_out.outcome = "Quarantined"
    /\ res_out.ops = <<"ensure_folder", "get_parents", "move">>
    /\ res_out.file.parents = {"processed"}

\* Hard delete and trash were refused or skipped and the quarantine move
\* failed: no fallback folder id was given, the processed-originals folder
\* could not be resolved or created, or the move itself was refused.
TiersExhausted ==
    /\ ~res_in.env.deleteOk
    /\ ~res_in.env.trashOk
    /\ \/ ~res_in.hasFallback
       \/ ~res_in.env.ensureOk
       \/ ~res_in.env.moveOk

\* C16 as stated: when every tier is exhausted the function raises
\* PermissionError instead of returning, the source keeps its state, and the
\* orchestrator leaves the record's processed cell unwritten.
CexC16_ExhaustedTiersRaise ==
    (res_out # <<>> /\ TiersExhausted) =>
        /\ res_out.outcome = "PermissionError"
        /\ pc = "loop"
        /\ ~IsProcessedCell(PadRow(sheet[2], PROCESSED_INDEX)[PROCESSED_INDEX])
        /\ res_out.file.exists /\ ~res_out.file.trashed

\* The reference cell of data row n, trimmed.
ReferenceOf(n) == Strip(PadRow(sheet[n + 1], PROCESSED_INDEX)[ColAUDIO_FILE_URL])

\* The text holds no run of 25 or more characters out of letters, digits,
\* "_" and "-".
HoldsNoFileId(text) ==
    ~\E i \in 1..(Len(text) - 24) : \A j \in i..(i + 24) : IsIdChar(text[j])

\* Data row n has an empty reference or one no source id can be taken from.
IsSkipRecord(n) == ReferenceOf(n) = <<>> \/ HoldsNoFileId(ReferenceOf(n))

\* C17 (state part): for a record with an empty or unusable reference no
\* download, upload, ledger append, deletion or commit write is performed,
\* nothing is reported as failed, and its processed cell stays as it was.
StateC17 ==
    \A n \in DataRows :
        (IsSkipRecord(n) /\ ~InitiallyMarked(n)) =>
            /\ \A i \in 1..Len(calls) :
                  calls[i].row = n + 1 => (calls[i].op = "extract_drive_file_id" /\ calls[i].ok)
            /\ stats[n].commits = 0 /\ stats[n].uploads = 0 /\ stats[n].appends = 0
            /\ UploadedCopies(n) = 0
            /\ ~IsMarked(n)
            /\ srcState[n] = SourceFile("nourl")

\* C17 (step part): after the reference check of such a record the loop goes
\* on with the next record.
StepC17 ==
    (pc = "prepare" /\ IsSkipRecord(cur.idx - 1)) => pc' \in {"loop", "crashed"}

\* C17: a record with an empty or unusable reference is skipped without a
\* failure and the run goes on with the next record.
ThmC17_SkipOnMissingReference == []StateC17 /\ [][StepC17]_vars

\* A run ended that skipped row 2, whose reference holds no file id, and
\* committed row 3.
WitC17_SkippedThenNextCommitted ==
    /\ pc = "done"
    /\ ReferenceOf(1) # <<>>
    /\ IsSkipRecord(1)
    /\ Happened("extract_drive_file_id", 2, TRUE)
    /\ Pos("extract_drive_file_id", 2, TRUE) < Pos("commit", 3, TRUE)
    /\ ~IsMarked(1)

\* C18 (state part): a record whose ledger update failed and whose cleanup
\* then succeeded has its processed cell written, unless the commit write
\* itself failed, is still to come, or the process died.
StateC18 ==
    \A n \in DataRows :
        (/\ Happened("log", n + 1, FALSE)
         /\ Happened("delete", n + 1, TRUE)
         /\ ~Happened("commit", n + 1, FALSE)
         /\ pc # "crashed"
         /\ ~(pc = "commit" /\ cur.idx = n + 1)) =>
            /\ Pos("log", n + 1, FALSE) < Pos("delete", n + 1, TRUE)
            /\ Pos("delete", n + 1, TRUE) < Pos("commit", n + 1, TRUE)
            /\ Written(n)
            /\ IsMarked(n)

\* C18 (step part): whatever the ledger update does, the next step of the
\* record is the source cleanup.
StepC18 == pc = "log" => pc' \in {"delete", "crashed"}

\* C18: a failure in the ledger update does not halt the record: cleanup is
\* still attempted and, when it succeeds, the processed cell is written.
ThmC18_LedgerFailureDoesNotHalt == []StateC18 /\ [][StepC18]_vars

\* A run ended in which the ledger update of row 2 failed before any row was
\* appended, and row 2 was cleaned up and marked.
WitC18_CommittedDespiteLedgerFailure ==
    /\ pc = "done"
    /\ Happened("log", 2, FALSE)
    /\ stats[1].appends = 0
    /\ LedgerDataRows = 0
    /\ ~InIntake(srcState[1])
    /\ stats[1].commits = 1
    /\ IsMarked(1)

\* The sheet rows the scanner yields for the snapshot of the run that lie
\* after sheet row k, in order.
YieldedAfter(k) ==
    LET y == iter_unprocessed_rows(values, PROCESSED_INDEX)
        IsAfter(r) == r.idx > k
        later == SelectSeq(y, IsAfter)
    IN  [i \in 1..Len(later) |-> later[i].idx]

\* The step reported a failure of a per-record call.
FailureReported ==
    /\ Len(calls') > Len(calls)
    /\ ~calls'[Len(calls')].ok

\* C19 (state part): while a run is under way the rows still to be attempted
\* are exactly the unprocessed rows after the current one, and the run ends
\* only when none is left.
StateC19 ==
    /\ pc \in {"loop", "prepare", "ensure_folder", "download", "resolve", "upload",
               "log", "delete", "commit"} => queue = YieldedAfter(cur.idx)
    /\ pc \in {"done", on_snapshot_error} => queue = <<>>
    /\ pc \in {"done", on_snapshot_error} =>
          \A n \in DataRows :
              (/\ ~IsProcessedCell(ProcessedCellOf(values, n))
               /\ ReferenceOf(n) # <<>>) =>
                  \E i \in 1..Len(calls) : calls[i].row = n + 1

\* C19 (step part): a step that reports a failure of a per-record call
\* neither ends the run nor drops a row still to be attempted.
StepC19 ==
    FailureReported =>
        /\ pc' \in {"loop", "delete"}
        /\ queue' = queue

\* C19: a per-record failure neither ends the run nor blocks later records.
ThmC19_FailureDoesNotBlockLaterRecords == []StateC19 /\ [][StepC19]_vars

\* A run ended in which the download of row 2 failed and row 3 was then
\* committed.
WitC19_FailedThenNextCommitted ==
    /\ pc = "done"
    /\ Happened("download", 2, FALSE)
    /\ Happened("commit", 3, TRUE)
    /\ Pos("download", 2, FALSE) < Pos("commit", 3, TRUE)
    /\ ~IsMarked(1)
    /\ IsMarked(2)

----------------------------------------------------------------------------
(* Tagging on its own: one tag_audio_bytes_preserve_previous call on the    *)
(* bytes downloaded for the record in sheet row 2, under every failure of   *)
(* the temporary file and of the tag library, followed by the upload of the *)
(* bytes it returned, or by the except clause of the loop body when it      *)
(* raised.  A file's bytes are its audio and its four tags; the  *)
(* tag values are the ones Mp3Tagger.sanitize_string returns for them       *)
(* (library code).                                                          *)

\* The call that raises ("none": no call raises): the constructor Mp3Tagger()
\* before the try block and, inside it, writing the temporary file,
\* tagger.read, tagger.write, reading the file back.
TagFailures == {"none", "construct", "open", "read", "write", "reopen"}

\* tag_audio_bytes_preserve_previous(filename_for_type=, audio_bytes=,
\* new_title=, new_artist=): [raised, bytes], the bytes it returns, or raised
\* = TRUE when the exception of Mp3Tagger() leaves the function.
tag_audio_bytes_preserve_previous(filename_for_type, audio_bytes, new_title, new_artist, failAt) ==
    LET d == LastIndexOf(filename_for_type, ".")
        ext == IF d = 0 THEN <<>>
               ELSE Lower(SubSeq(filename_for_type, d + 1, Len(filename_for_type)))
        suffix == IF ext # <<>> THEN <<".">> \o ext ELSE <<>>
        tmp_path == <<"a", "u", "d", "i", "o">> \o suffix
        existing_title == audio_bytes.tracktitle
        existing_artist == audio_bytes.artist
        existing_album == audio_bytes.album
        existing_comment == audio_bytes.comment
        prev_concat ==
            IF \E t \in {existing_title, existing_artist, existing_album,
                         existing_comment} : t # <<>>
            THEN <<"p", "r", "e", "v", "[">> \o existing_title \o <<",">>
                 \o existing_artist \o <<",">> \o existing_album \o <<",">>
                 \o existing_comment \o <<"]">>
            ELSE <<>>
        written == [audio_bytes EXCEPT !.tracktitle = new_title,
                                       !.artist = new_artist,
                                       !.comment = IF prev_concat # <<>> THEN prev_concat
                                                   ELSE @]
    IN  IF failAt = "construct"
        THEN [raised |-> TRUE, bytes |-> <<>>]      \* tagger = Mp3Tagger()
        ELSE IF failAt # "none"
        THEN [raised |-> FALSE, bytes |-> audio_bytes]   \* except Exception
        ELSE [raised |-> FALSE, bytes |-> written]

\* Tag values a submitted file may carry.
TagTexts == {<<>>, <<"x">>}

\* The bytes of the submitted original.
OriginalBytes ==
    [audio : {1}, tracktitle : TagTexts, artist : TagTexts, album : TagTexts,
     comment : TagTexts]

\* final_filename values: with and without an extension.
TagFilenames == {<<"K", "_", "v", "1", ".", "M", "P", "3">>, <<"K", "_", "v", "1">>}

InitTag ==
    /\ res_in \in [filename_for_type : TagFilenames, audio_bytes : OriginalBytes,
                   new_title : {<<"L", "_", "F">>}, new_artist : {<<"v", "1">>},
                   failAt : TagFailures]
    /\ res_out = <<>>
    /\ sheet = <<HeaderRow, FormRow("plain", 1)>>
    /\ pc = "tag"
    /\ cur = [NoCur EXCEPT !.idx = 2, !.file_id = FileId(1), !.final = res_in.filename_for_type]
    /\ values = <<>>
    /\ queue = <<>>
    /\ srcState = <<SourceFile("plain")>>
    /\ perms = [canDelete |-> TRUE, canTrash |-> TRUE]
    /\ destFiles = <<>>
    /\ ledger = NoTab
    /\ calls = <<>>
    /\ runs = 0
    /\ faults = 0
    /\ clean = TRUE
    /\ stats = <<>>

\* tagged_bytes = tag_audio_bytes_preserve_previous(...): the call returns and
\* the loop body goes on to drive.upload_bytes, or it raises and the except
\* clause of the loop body reports the row as failed.
TagCall ==
    /\ pc = "tag"
    /\ LET r == tag_audio_bytes_preserve_previous(res_in.filename_for_type,
                    res_in.audio_bytes, res_in.new_title, res_in.new_artist,
                    res_in.failAt)
       IN  /\ res_out' = r
           /\ IF r.raised
              THEN Raise("tag")
              ELSE pc' = "upload" /\ UNCHANGED calls
    /\ UNCHANGED <<sheet, values, queue, cur, srcState, perms, destFiles, ledger,
                   runs, faults, clean, stats, res_in>>

\* drive.upload_bytes(parent_id=, filename=final_filename, content=tagged_bytes,
\* mime_type=): the file is created with the tagged bytes, or the call raises.
UploadTagged ==
    /\ pc = "upload"
    /\ \/ /\ destFiles' = Append(destFiles, [name |-> cur.final,
                                             from |-> FileIndex(cur.file_id),
                                             content |-> res_out.bytes])
          /\ calls' = Append(calls, Ev("upload", TRUE))
          /\ pc' = NextStep("upload")
       \/ /\ calls' = Append(calls, Ev("upload", FALSE))
          /\ pc' = AfterRaise("upload")
          /\ UNCHANGED destFiles
    /\ UNCHANGED <<sheet, values, queue, cur, srcState, perms, ledger, runs, faults,
                   clean, stats, res_in, res_out>>

NextTag == TagCall \/ UploadTagged

SpecTag == InitTag /\ [][NextTag]_vars

\* C20 as stated: whatever call of the tagging fails, the function does not
\* raise, it returns the bytes it was given, the row is not reported as
\* failed by the tagging, and the file then uploaded holds those bytes.
CexC20_TaggingFailureNeverPropagates ==
    (pc # "tag" /\ res_in.failAt # "none") =>
        /\ ~res_out.raised
        /\ res_out.bytes = res_in.audio_bytes
        /\ ~Happened("tag", 2, FALSE)
        /\ Happened("upload", 2, TRUE) =>
              /\ Len(destFiles) = 1
              /\ destFiles[1].content = res_in.audio_bytes

----------------------------------------------------------------------------
(* Further properties of the deletion fallback (SpecDelete).                *)

\* The operation was issued by the call.
Issued(op) == \E i \in 1..Len(res_out.ops) : res_out.ops[i] = op

\* Position of the operation among the calls issued, 0 when it was not issued.
OpPos(op) ==
    IF Issued(op) THEN CHOOSE i \in 1..Len(res_out.ops) : res_out.ops[i] = op ELSE 0

\* C21: a hard delete is issued only when canDelete is reported true or the
\* capabilities are unavailable, and a trash call only when canTrash is
\* reported true or the capabilities are unavailable.
CexC21_TierIssuedOnlyIfItsCapabilityAllows ==
    res_out # <<>> =>
        /\ Issued("delete") => (~res_in.env.capsOk \/ res_in.env.canDelete)
        /\ Issued("trash") => (~res_in.env.capsOk \/ res_in.env.canTrash)

\* C22: when the capability query fails the call goes through the tiers as
\* if both capabilities were allowed: hard delete, trash when that is
\* refused, the quarantine move when that is refused too.
ThmC22_UnreadableCapabilitiesSkipNothing ==
    (res_out # <<>> /\ ~res_in.env.capsOk) =>
        /\ Issued("delete") /\ OpPos("delete") = 1
        /\ res_in.env.deleteOk =>
              /\ res_out.outcome = "Deleted"
              /\ res_out.ops = <<"delete">>
        /\ (~res_in.env.deleteOk /\ res_in.env.trashOk) =>
              /\ res_out.outcome = "Trashed"
              /\ res_out.ops = <<"delete", "trash">>
        /\ (~res_in.env.deleteOk /\ ~res_in.env.trashOk /\ res_in.hasFallback
            /\ res_in.env.ensureOk) =>
              /\ res_out.ops = <<"delete", "trash", "ensure_folder", "get_parents", "move">>
              /\ res_in.env.moveOk => res_out.outcome = "Quarantined"
        /\ (~res_in.env.deleteOk /\ ~res_in.env.trashOk /\ ~res_in.hasFallback) =>
              /\ res_out.ops = <<"delete", "trash">>
              /\ res_out.outcome = "PermissionError"

\* The capability query failed, delete and trash were refused and the file
\* was moved to the processed-originals folder.
WitC22_UnreadableCapabilitiesAllTiersTried ==
    /\ res_out # <<>>
    /\ ~res_in.env.capsOk
    /\ ~res_in.env.canDelete /\ ~res_in.env.canTrash
    /\ res_out.ops = <<"delete", "trash", "ensure_folder", "get_parents", "move">>
    /\ res_out.outcome = "Quarantined"

\* The terminal outcomes the file's state shows.
OutcomesReached ==
    {o \in {"Deleted", "Trashed", "Quarantined"} :
        \/ o = "Deleted" /\ ~res_out.file.exists
        \/ o = "Trashed" /\ res_out.file.trashed
        \/ o = "Quarantined" /\ "processed" \in res_out.file.parents}

\* C23: one call leaves the file with at most one of the outcomes Deleted,
\* Trashed, Quarantined; the tiers are tried in the order hard delete, trash,
\* quarantine move, each at most once; the tier that succeeds issues the last
\* operation of the call.
ThmC23_OneOutcomeTiersInOrder ==
    res_out # <<>> =>
        /\ Cardinality(OutcomesReached) <= 1
        /\ DeleteSucceeded(res_out.outcome) => OutcomesReached = {res_out.outcome}
        /\ ~DeleteSucceeded(res_out.outcome) => OutcomesReached = {}
        /\ \A i, j \in 1..Len(res_out.ops) : i # j => res_out.ops[i] # res_out.ops[j]
        /\ Issued("trash") => (Issued("delete") /\ OpPos("delete") < OpPos("trash"))
        /\ (Issued("trash") /\ Issued("ensure_folder")) =>
              OpPos("trash") < OpPos("ensure_folder")
        /\ Issued("move") => (/\ Issued("ensure_folder")
                              /\ OpPos("ensure_folder") < OpPos("get_parents")
                              /\ OpPos("get_parents") < OpPos("move"))
        /\ res_out.outcome = "Deleted" => res_out.ops[Len(res_out.ops)] = "delete"
        /\ res_out.outcome = "Trashed" => res_out.ops[Len(res_out.ops)] = "trash"
        /\ res_out.outcome = "Quarantined" => res_out.ops[Len(res_out.ops)] = "move"

\* The hard delete was refused, the trash update succeeded and nothing was
\* issued after it.
WitC23_TrashedAfterRefusedDelete ==
    /\ res_out # <<>>
    /\ res_out.outcome = "Trashed"
    /\ res_out.ops = <<"delete", "trash">>
    /\ res_out.file.exists
    /\ "processed" \notin res_out.file.parents

\* C24: a file the call quarantined is a child of the processed-originals
\* folder and no longer a child of the intake folder.
CexC24_QuarantinedLeavesIntake ==
    (res_out # <<>> /\ res_out.outcome = "Quarantined") =>
        /\ "processed" \in res_out.file.parents
        /\ "intake" \notin res_out.file.parents

\* Tiers 1 and 2 were skipped or both refused.
Tier3Reached == ~res_in.env.deleteOk /\ ~res_in.env.trashOk

\* C25: the processed-originals folder is resolved or created exactly when
\* tier 3 is reached and a fallback folder id was supplied; without the id
\* the call raises PermissionError with no move and no folder creation, and
\* the file stays as it was.
ThmC25_QuarantineFolderResolvedLazily ==
    res_out # <<>> =>
        /\ Issued("ensure_folder") <=> (Tier3Reached /\ res_in.hasFallback)
        /\ res_out.outcome \in {"Deleted", "Trashed"} =>
              (~Issued("ensure_folder") /\ ~Issued("move"))
        /\ (Tier3Reached /\ ~res_in.hasFallback) =>
              /\ res_out.outcome = "PermissionError"
              /\ ~Issued("ensure_folder") /\ ~Issued("get_parents") /\ ~Issued("move")
              /\ res_out.file = [exists |-> TRUE, trashed |-> FALSE,
                                 parents |-> res_out.file.parents,
                                 name |-> <<"s", ".", "m">>]
              /\ "processed" \notin res_out.file.parents

\* Delete and trash were refused, no fallback folder id was supplied, and the
\* call raised without touching the processed-originals folder.
WitC25_NoFallbackIdNoFolder ==
    /\ res_out # <<>>
    /\ ~res_in.hasFallback
    /\ res_out.ops = <<"delete", "trash">>
    /\ res_out.outcome = "PermissionError"
    /\ pc = "loop"

----------------------------------------------------------------------------
(* A record transferred again by a later run (SpecResolve): the same        *)
(* desired name is resolved and uploaded twice, the second time with the    *)
(* first copy in the folder.                                                *)

\* C26: when a record whose copy was uploaded under version v is transferred
\* again, the second copy is uploaded under another version than v and the
\* first copy stays in the folder.
CexC26_SecondCopyUnderAnotherVersion ==
    \A i, j \in 1..Len(destFiles) :
        (/\ i < j
         /\ destFiles[i].from = 2
         /\ destFiles[j].from = 2
         /\ KeyExtVersion(destFiles[i].name).key = KeyExtVersion(destFiles[j].name).key
         /\ KeyExtVersion(destFiles[i].name).ext = KeyExtVersion(destFiles[j].name).ext) =>
            KeyExtVersion(destFiles[i].name).version # KeyExtVersion(destFiles[j].name).version

----------------------------------------------------------------------------
(* Committed rows over several runs (Spec).                                 *)

\* The step works on data row n: it issues a call for it or holds it as the
\* current row of the loop body.
WorksOn(n) ==
    \/ Len(calls') > Len(calls) /\ calls'[Len(calls')].row = n + 1
    \/ /\ pc' \in {"prepare", "ensure_folder", "download", "resolve", "upload", "log",
                   "delete", "commit"}
       /\ cur'.idx = n + 1

\* C27 (state part): the processed cell of a row is written at most once
\* over all runs.
StateC27 == \A n \in DataRows : stats[n].commits <= 1

\* C27 (step part): no step works on a row whose processed cell holds the
\* marker: no download, upload, ledger append, deletion or commit write is
\* made for it, its source and its processed cell stay as they are.
StepC27 ==
    \A n \in DataRows :
        IsMarked(n) =>
            /\ ~WorksOn(n)
            /\ stats'[n] = stats[n]
            /\ srcState'[n] = srcState[n]
            /\ ProcessedCellOf(sheet', n) = ProcessedCellOf(sheet, n)

\* C27: a committed row is never processed nor written again.
ThmC27_CommittedRowNeverTouchedAgain == []StateC27 /\ [][StepC27]_vars

\* The first record was committed by the first run; the second run left it
\* alone and committed the second record.
WitC27_SecondRunSkipsCommittedRow ==
    /\ runs = 2
    /\ pc = "done"
    /\ stats[1].commits = 1
    /\ stats[1].uploads = 1
    /\ \A i \in 1..Len(calls) : calls[i].row # 2
    /\ Happened("commit", 3, TRUE)

----------------------------------------------------------------------------
(* Order of the work inside one run (Spec).                                 *)

\* The events of the running (or last) run that belong to a row.
RowEvents == {i \in 1..Len(calls) : calls[i].row # 0}

\* C28 (state part): in the calls of one run the rows never go back (every
\* call for a row comes before every call for a later row), no call is issued
\* twice for a row, and the call that failed for a row is the last one issued
\* for it, a ledger failure excepted.
StateC28 ==
    /\ \A i, j \in RowEvents : i < j => calls[i].row <= calls[j].row
    /\ \A i, j \in RowEvents :
          (i # j /\ calls[i].row = calls[j].row) => calls[i].op # calls[j].op
    /\ \A i, j \in RowEvents :
          (i < j /\ ~calls[i].ok /\ calls[i].op # "log") => calls[i].row < calls[j].row

\* C28 (step part): the loop takes the rows in sheet order, each at most once.
StepC28 ==
    (pc = "loop" /\ pc' = "prepare") =>
        /\ cur'.idx > cur.idx
        /\ \A i \in 1..Len(calls) : calls[i].row < cur'.idx
        /\ \A i \in 1..Len(queue') : queue'[i] > cur'.idx

\* C28: records are processed one at a time in sheet order, each at most once
\* per run and without retrying a step.
ThmC28_OneRecordAtATimeInSheetOrder == []StateC28 /\ [][StepC28]_vars

\* Both records were committed in one run, the first one completely before
\* the first call for the second.
WitC28_TwoRecordsOneAfterTheOther ==
    /\ pc = "done"
    /\ Happened("commit", 2, TRUE)
    /\ Happened("commit", 3, TRUE)
    /\ \A i, j \in RowEvents : (calls[i].row = 2 /\ calls[j].row = 3) => i < j
    /\ Cardinality({i \in RowEvents : calls[i].row = 3}) >= 6

----------------------------------------------------------------------------
(* Positions: what the scanner yields and where the commit write lands      *)
(* (Spec).                                                                  *)

\* The step is a commit write that succeeded.
CommitWritten ==
    /\ Len(calls') = Len(calls) + 1
    /\ calls'[Len(calls')].op = "commit"
    /\ calls'[Len(calls')].ok

\* C29 (state part): a position the scanner yielded is the 1-based index of
\* a data row of the sheet it read (2 for the first data row), that row's
\* processed cell was not the marker, and the record worked on is the one of
\* that sheet row.
StateC29 ==
    /\ \A i \in 1..Len(queue) :
          /\ queue[i] \in 2..Len(values)
          /\ ~IsProcessedCell(ProcessedCellOf(values, queue[i] - 1))
    /\ pc \in {"prepare", "ensure_folder", "download", "resolve", "upload", "log",
               "delete", "commit"} =>
          /\ cur.idx \in 2..Len(values)
          /\ ~IsProcessedCell(ProcessedCellOf(values, cur.idx - 1))
    /\ pc \in {"ensure_folder", "download", "resolve", "upload", "log", "delete", "commit"} =>
          cur.file_id = extract_drive_file_id(ReferenceOf(cur.idx - 1))

\* C29 (step part): the commit write changes the cell (position, processed
\* column) of the record worked on to "X" and no other cell; the scan of a
\* later run yields no row that was committed.
StepC29 ==
    /\ CommitWritten =>
          /\ Len(sheet') = Len(sheet)
          /\ \A r \in 1..Len(sheet) : r # cur.idx => sheet'[r] = sheet[r]
          /\ \A c \in 1..Len(sheet[cur.idx]) :
                c # PROCESSED_INDEX => sheet'[cur.idx][c] = sheet[cur.idx][c]
          /\ Len(sheet'[cur.idx]) = PROCESSED_INDEX
          /\ sheet'[cur.idx][PROCESSED_INDEX] = <<"X">>
          /\ PROCESSED_INDEX = INPUT_FORM_COL_COUNT + 1
    /\ (pc \in Idle /\ pc' = "loop") =>
          \A n \in DataRows :
              stats[n].commits >= 1 => \A i \in 1..Len(queue') : queue'[i] # n + 1

\* C29: the scanner yields 1-based sheet positions and the commit write
\* targets the processed cell of the position yielded.
ThmC29_CommitTargetsTheRowScanned == []StateC29 /\ [][StepC29]_vars

\* The first run failed on sheet row 2 and committed sheet row 3; the scan of
\* the second run yields position 2 only.
WitC29_CommittedRowThreeSkippedByRescan ==
    /\ runs = 2
    /\ pc = "loop"
    /\ calls = <<>>
    /\ queue = <<2>>
    /\ stats[2].commits = 1
    /\ sheet[3][PROCESSED_INDEX] = <<"X">>
    /\ ~IsMarked(1)

----------------------------------------------------------------------------
(* Short rows (SpecScan).                                                   *)

\* C30 (state part): every data row shorter than the processed column is
\* yielded, with its cells kept and every missing trailing cell, the
\* processed cell included, the empty string; the sheet is as it was read.
StateC30 ==
    pc = "scanned" =>
        /\ sheet = values
        /\ \A i \in 2..Len(sheet) :
              Len(sheet[i]) < PROCESSED_INDEX =>
                  \E j \in 1..Len(res_out) :
                      /\ res_out[j].idx = i
                      /\ Len(res_out[j].row) = PROCESSED_INDEX
                      /\ \A k \in 1..Len(sheet[i]) : res_out[j].row[k] = sheet[i][k]
                      /\ \A k \in (Len(sheet[i]) + 1)..PROCESSED_INDEX :
                            res_out[j].row[k] = <<>>

\* C30 (step part): scanning writes nothing to the sheet.
StepC30 == sheet' = sheet

\* C30: the scanner pads short rows with empty cells, yields them as
\* unprocessed and does not write to the sheet.
ThmC30_ShortRowsPaddedSheetUntouched == []StateC30 /\ [][StepC30]_vars

\* A sheet whose only data row has the eleven form cells and no processed
\* cell: the row is yielded at position 2, one empty cell longer.
WitC30_ElevenCellRowYieldedPadded ==
    /\ pc = "scanned"
    /\ Len(sheet) = 2
    /\ Len(sheet[2]) = INPUT_FORM_COL_COUNT
    /\ Len(res_out) = 1
    /\ res_out[1].idx = 2
    /\ Len(res_out[1].row) = PROCESSED_INDEX
    /\ res_out[1].row[PROCESSED_INDEX] = <<>>
    /\ sheet = values

----------------------------------------------------------------------------
(* A run whose read of the intake sheet fails (Spec).                       *)

\* The step is a start of a run whose read of the sheet failed.
ReadFailed == pc \in Idle /\ runs' = runs + 1 /\ faults' = faults + 1

\* C31 (state part): a run whose read failed has yielded no row and issued
\* no call.
StateC31 ==
    pc = "read_error" =>
        /\ queue = <<>>
        /\ calls = <<>>
        /\ values = <<>>

\* C31 (step part): a failed read ends the run with the error; it changes no
\* row, no file and no ledger row, and the only step after it is the start of
\* another run.
StepC31 ==
    /\ ReadFailed =>
          /\ pc' = "read_error"
          /\ sheet' = sheet /\ stats' = stats /\ srcState' = srcState
          /\ destFiles' = destFiles /\ ledger' = ledger
    /\ pc = "read_error" => (runs' = runs + 1 /\ pc' \in {"loop", "read_error"})

\* C31: an unreadable intake sheet ends the run with the read error; nothing
\* is yielded, processed or committed.
ThmC31_ReadErrorPropagates == []StateC31 /\ [][StepC31]_vars

\* The first run could not read a sheet that holds an unprocessed record
\* with a source id; nothing was done for it.
WitC31_ReadFailedNothingProcessed ==
    /\ pc = "read_error"
    /\ runs = 1
    /\ ~IsMarked(1) /\ HasSourceId(1) /\ HasValidTimestamp(1)
    /\ stats[1] = [commits |-> 0, uploads |-> 0, appends |-> 0, identified |-> FALSE]
    /\ InIntake(srcState[1])

----------------------------------------------------------------------------
(* Scanning and parsing one row (SpecParse): the scanner's padding followed *)
(* by _parse_submission_row on the normalized first eleven cells, for rows  *)
(* of every length up to the processed column.                              *)

\* _parse_submission_row(r): ValueError on fewer than INPUT_FORM_COL_COUNT
\* cells, else the Submission record.
parse_submission_row(r) ==
    IF Len(r) < INPUT_FORM_COL_COUNT
    THEN [ok |-> FALSE, error |-> "ValueError"]
    ELSE [ok |-> TRUE, timestamp |-> r[ColTIMESTAMP], leader_first |-> r[3],
          leader_last |-> r[4], follower_first |-> r[5], follower_last |-> r[6],
          division |-> r[7], routine_name |-> r[ColROUTINE_NAME],
          personal_descriptor |-> r[9], audio_url |-> r[ColAUDIO_FILE_URL]]

\* Rows as get_all_values returns them: a form response cut after any number
\* of cells.
ParseRows == {SubSeq(FormRow(k, 1), 1, len) : k \in RowKinds, len \in 0..PROCESSED_INDEX}

InitParse ==
    /\ \E row \in ParseRows : sheet = <<HeaderRow, row>>
    /\ pc = "scan"
    /\ values = <<>>
    /\ res_in = <<>>
    /\ res_out = <<>>
    /\ queue = <<>>
    /\ cur = NoCur
    /\ srcState = <<SourceFile("plain")>>
    /\ perms = [canDelete |-> FALSE, canTrash |-> FALSE]
    /\ destFiles = <<>>
    /\ ledger = NoTab
    /\ calls = <<>>
    /\ runs = 0
    /\ faults = 0
    /\ clean = TRUE
    /\ stats = <<>>

\* _iter_unprocessed_rows(sheet, processed_col): res_in holds the pairs
\* yielded.
ScanRow ==
    /\ pc = "scan"
    /\ values' = sheet
    /\ res_in' = iter_unprocessed_rows(sheet, PROCESSED_INDEX)
    /\ pc' = IF iter_unprocessed_rows(sheet, PROCESSED_INDEX) = <<>> THEN "done" ELSE "parse"
    /\ UNCHANGED <<sheet, queue, cur, srcState, perms, destFiles, ledger, calls, runs,
                   faults, clean, stats, res_out>>

\* sub = _parse_submission_row(g.sheets.normalize_row(row[:INPUT_FORM_COL_COUNT]))
\* and the two skip tests that follow it; a ValueError goes to the except
\* clause of the loop body (the record is reported as failed).
ParseRow ==
    /\ pc = "parse"
    /\ LET sub == parse_submission_row(normalize_row(res_in[1].row))
       IN  /\ res_out' = sub
           /\ pc' = IF ~sub.ok THEN "malformed_row"
                    ELSE IF sub.audio_url = <<>> THEN "skipped"
                    ELSE IF extract_drive_file_id(sub.audio_url) = <<>> THEN "skipped"
                    ELSE "fields_parsed"
    /\ UNCHANGED <<sheet, values, queue, cur, srcState, perms, destFiles, ledger, calls,
                   runs, faults, clean, stats, res_in>>

NextParse == ScanRow \/ ParseRow

SpecParse == InitParse /\ [][NextParse]_vars

\* C32: a scanned row with fewer than the eleven input cells makes the
\* record fail with the malformed-row error instead of being parsed with
\* empty fields or skipped.
CexC32_ShortRowFailsAsMalformed ==
    (/\ pc \in {"malformed_row", "skipped", "fields_parsed"}
     /\ Len(sheet[2]) < INPUT_FORM_COL_COUNT) =>
        pc = "malformed_row"

----------------------------------------------------------------------------
(* Further properties of the submission log writer (SpecLedger).            *)

\* Number of rows of the sequence equal to r.
CountOf(r, rows) == Cardinality({i \in 1..Len(rows) : rows[i] = r})

\* The log rows the bounded family of tabs and appends is made of.
LogRowPool == (TabRowPool \cup AppendRowPool) \ {BlankRow}

\* C33: when the resort step fails (re-read, clear or rewrite raises) the
\* call returns normally and the row it appended is still in the tab: the tab
\* holds one more copy of that row than before the call.
CexC33_AppendedRowSurvivesFailedResort ==
    (res_in # <<>> /\ res_in.failAt \in {"read", "clear", "update"}) =>
        CountOf(res_in.row, Tail(res_out)) = CountOf(res_in.row, Tail(res_in.before)) + 1

\* C34: after a call whose resort step did not fail, the non-blank data rows
\* of the tab are the non-blank data rows it had before plus the appended
\* row: none lost, none duplicated.
CexC34_SuccessfulAppendPreservesRows ==
    (res_in # <<>> /\ res_in.failAt = "none") =>
        \A r \in LogRowPool :
            CountOf(r, DataRowsOf(res_out)) =
                CountOf(r, DataRowsOf(res_in.before)) + (IF r = res_in.row THEN 1 ELSE 0)

\* C35: _ensure_division_tab_and_headers leaves a tab that exists: the
\* existing one with its rows below row 1 and its formatting state as they
\* were, or a new one that is formatted; after the call the first six cells
\* of row 1 are the fixed header and whatever row 1 held after them is kept.
StepC35 ==
    pc = "ensure_tab" =>
        /\ ledger'.exists
        /\ Len(ledger'.vals) >= 1
        /\ Len(ledger'.vals[1]) >= 6
        /\ SubSeq(ledger'.vals[1], 1, 6) = LEDGER_HEADERS
        /\ ledger.exists =>
              /\ ledger'.formatted = ledger.formatted
              /\ Len(ledger'.vals) = (IF ledger.vals = <<>> THEN 1 ELSE Len(ledger.vals))
              /\ \A i \in 2..Len(ledger.vals) : ledger'.vals[i] = ledger.vals[i]
              /\ ledger.vals # <<>> =>
                    \A k \in 7..Len(ledger.vals[1]) : ledger'.vals[1][k] = ledger.vals[1][k]
        /\ ~ledger.exists =>
              /\ ledger'.formatted
              /\ ledger'.vals = <<LEDGER_HEADERS>>

ThmC35_TabFoundOrCreatedWithHeader == [][StepC35]_vars

\* An existing unformatted tab with seven other titles in row 1 and one log
\* row got the fixed header in its first six cells and no formatting, and
\* kept its seventh cell and its log row.
WitC35_ExistingTabHeaderRewritten ==
    /\ pc = "append"
    /\ res_in = <<>>
    /\ ~ledger.formatted
    /\ ledger.vals = <<LEDGER_HEADERS \o << <<"N", "o", "t", "e">> >>, RowZed1>>
    /\ Len(queue) = 1

----------------------------------------------------------------------------
(* The snapshot at the end of a run (Spec).                                 *)

\* C36: every run that ends, a run that skipped every row included, resolves
\* the _Submitted_Music spreadsheet with a find_or_create_spreadsheet call of
\* its own and publishes the snapshot from that spreadsheet, not from the
\* intake sheet.
CexC36_SnapshotFromSubmittedMusic ==
    pc = "done" =>
        /\ \E i \in 1..Len(calls) :
              calls[i].op = "find_or_create_spreadsheet" /\ calls[i].row = 0
        /\ res_out.snapshot_of = "_Submitted_Music"

----------------------------------------------------------------------------
(* Names of other keys in the folder (SpecResolve).                         *)

\* The names of the listing whose stem is the key of the desired name
\* followed by _v<N>, with the extension of the desired name, compared
\* without regard to case.
ExactKeyNames(listing, desired) ==
    LET IsExact(name) ==
            /\ IsVersioned(name)
            /\ KeyExtVersion(name).key = KeyExtVersion(desired).key
            /\ KeyExtVersion(name).ext = KeyExtVersion(desired).ext
    IN  SelectSeq(listing, IsExact)

\* C37: the version resolved for a key depends only on the existing names
\* whose stem is exactly key_v<N>: the result is the one the resolver gives
\* when the names of every other key, those having the key as a proper
\* prefix included, are taken out of the listing.
CexC37_OtherKeysDoNotChangeTheVersion ==
    res_out # <<>> =>
        res_out = resolve_versioned_filename(ExactKeyNames(res_in.page, res_in.desired),
                                             res_in.desired)

----------------------------------------------------------------------------
(* A record whose timestamp strptime rejects.                               *)

\* Data row n holds an unprocessed record with a source id whose timestamp
\* cannot be parsed.
BadTimestampRecord(n) ==
    /\ ~InitiallyMarked(n)
    /\ HasSourceId(n)
    /\ ~HasValidTimestamp(n)

StorageOps == {"ensure_folder", "download", "resolve", "upload", "log", "delete", "commit"}

\* C38: a record whose timestamp cannot be parsed fails before any storage
\* side effect: in no run is a destination folder ensured, a file downloaded
\* or uploaded, a ledger row appended, the source object deleted or the
\* processed cell written for it; the calls made for it are the id extraction
\* and the failed preparation only.
ThmC38_BadTimestampFailsBeforeStorage ==
    \A n \in DataRows :
        BadTimestampRecord(n) =>
            /\ \A i \in 1..Len(calls) :
                  calls[i].row = n + 1 =>
                      /\ calls[i].op \notin StorageOps
                      /\ calls[i] \in {[op |-> "extract_drive_file_id", row |-> n + 1, ok |-> TRUE],
                                       [op |-> "prepare", row |-> n + 1, ok |-> FALSE]}
            /\ stats[n].uploads = 0 /\ stats[n].appends = 0 /\ stats[n].commits = 0
            /\ \A i \in 1..Len(destFiles) : destFiles[i].from # n
            /\ srcState[n] = SourceFile("badts")
            /\ ~IsMarked(n)
            /\ (pc \in StorageOps => cur.idx # n + 1)

\* A run ended in which the record of sheet row 2 failed on its timestamp
\* and the record of sheet row 3 went through to its commit.
WitC38_BadTimestampFailedAtPrepare ==
    /\ pc = "done"
    /\ BadTimestampRecord(1)
    /\ Happened("extract_drive_file_id", 2, TRUE)
    /\ Happened("prepare", 2, FALSE)
    /\ Pos("prepare", 2, FALSE) < Pos("commit", 3, TRUE)
    /\ InIntake(srcState[1])
    /\ destFiles # <<>>

----------------------------------------------------------------------------
(* The sanitizer on its own (SpecSanitize): one call of                     *)
(* _sanitize_user_entered_data_from_form on every text of a bounded length  *)
(* over letters of both cases, a digit, blanks, the underscore, a slash and *)
(* a quote, and on the texts of the repository's tests.                     *)

MaxSanitizeLen == 4

SanitizeAlphabet == {"a", "B", "7", " ", "\t", "_", "/", "'", "é"}

SanitizeExamples ==
    { <<"A","l","i","c","e"," "," "," ","L","e","a","d","e","r">>,
      <<"A","/","B">>,
      <<"_","_","A","_","_">>,
      <<"B","e","y","o","n","c","é">>,
      <<" "," ","n","o","v","i","c","e","_","j","&","j"," ">> }

SanitizeInputs ==
    SanitizeExamples \cup UNION {[1..k -> SanitizeAlphabet] : k \in 0..MaxSanitizeLen}

InitSanitize ==
    /\ res_in \in SanitizeInputs
    /\ res_out = <<>>
    /\ pc = "sanitize"
    /\ sheet = <<>>
    /\ values = <<>>
    /\ queue = <<>>
    /\ cur = NoCur
    /\ srcState = <<>>
    /\ perms = [canDelete |-> FALSE, canTrash |-> FALSE]
    /\ destFiles = <<>>
    /\ ledger = NoTab
    /\ calls = <<>>
    /\ runs = 0
    /\ faults = 0
    /\ clean = TRUE
    /\ stats = <<>>

\* _sanitize_user_entered_data_from_form(value): res_out holds the string
\* returned.
SanitizeCall ==
    /\ pc = "sanitize"
    /\ res_out' = [value |-> sanitize_user_entered_data_from_form(res_in)]
    /\ pc' = "sanitized"
    /\ UNCHANGED <<sheet, values, queue, cur, srcState, perms, destFiles, ledger, calls,
                   runs, faults, clean, stats, res_in>>

NextSanitize == SanitizeCall

SpecSanitize == InitSanitize /\ [][NextSanitize]_vars

\* Positions of v that hold an ASCII letter or digit.
AlnumPositions(v) == {i \in 1..Len(v) : IsAsciiAlnum(v[i])}

\* The k-th of them.
AlnumPosition(v, k) ==
    CHOOSE i \in AlnumPositions(v) : Cardinality({j \in AlnumPositions(v) : j <= i}) = k

\* C39: for every input the sanitizer returns ASCII letters and digits only;
\* an empty or blank input gives the empty string; the result is the input's
\* letters and digits in order, every other character (blank, underscore,
\* slash, quote) dropped, with the first character of each maximal run of
\* letters and digits in upper case and the rest of the run in lower case;
\* 'Alice   Leader' gives 'AliceLeader', 'A/B' gives 'AB', '__A__' gives 'A'.
ThmC39_SanitizedIsAsciiAlnumCapitalised ==
    pc = "sanitized" =>
        LET v == res_in
            out == res_out.value
        IN  /\ \A k \in 1..Len(out) : IsAsciiAlnum(out[k])
            /\ (\A i \in 1..Len(v) : IsSpace(v[i])) => out = <<>>
            /\ Len(out) = Cardinality(AlnumPositions(v))
            /\ \A k \in 1..Len(out) :
                  LET i == AlnumPosition(v, k)
                  IN  <<out[k]>> = IF i = 1 \/ ~IsAsciiAlnum(v[i - 1])
                                   THEN UpperChar(v[i]) ELSE <<LowerChar(v[i])>>
            /\ v = <<"A","l","i","c","e"," "," "," ","L","e","a","d","e","r">>
                  => out = <<"A","l","i","c","e","L","e","a","d","e","r">>
            /\ v = <<"A","/","B">> => out = <<"A","B">>
            /\ v = <<"_","_","A","_","_">> => out = <<"A">>
            /\ v = <<"B","e","y","o","n","c","é">> => out = <<"B","e","y","o","n","c">>

\* The sanitizer returned 'NoviceJJ' for '  novice_j&j ': blanks at the ends,
\* an underscore and a special character were in the input.
WitC39_SeparatorsDroppedSegmentsCapitalised ==
    /\ pc = "sanitized"
    /\ res_in = <<" "," ","n","o","v","i","c","e","_","j","&","j"," ">>
    /\ res_out.value = <<"N","o","v","i","c","e","J","J">>

=============================================================================
